---- MODULE Spec2Model ----
(***************************************************************************)
(* Notorious: a hex-board pirate game.  The module models the game state   *)
(* G of src/game/NotoriousGame.ts (the boardgame.io engine) together with  *)
(* the turn/phase bookkeeping the game definition configures, and the      *)
(* class-based phase machine of src/core/PhaseManager.ts.                  *)
(***************************************************************************)
EXTENDS Integers, Sequences, FiniteSets, Bags, TLC

(* ------------------------- GAME_CONSTANTS ------------------------------ *)
WINNING_NOTORIETY == 24
STARTING_CAPTAINS == 2
STARTING_SLOOPS == 4
STARTING_GALLEONS == 2
STARTING_DOUBLOONS == 0
CAPTAIN_UNLOCK_THRESHOLDS == <<5, 12>>
INFLUENCE_VALUES == [SLOOP |-> 1, GALLEON |-> 2, PORT |-> 3]

NumPlayers == 2
Players == 0 .. (NumPlayers - 1)

ShipType == {"SLOOP", "GALLEON", "PORT"}
ActionType == {"SAIL", "STEAL", "BUILD", "SINK", "CHART"}
PiratePower == {"THE_SAILOR", "THE_PEACEFUL", "THE_RELENTLESS", "THE_ISLANDER"}

\* null for an absent coordinate / absent player id
NullHex == <<>>
NoPlayer == -1

(* ------------------------- hex arithmetic ------------------------------ *)
Abs(x) == IF x < 0 THEN -x ELSE x

createHexCoord(q, r) == <<q, r>>

DIRECTION_VECTORS ==
    << <<1, 0>>, <<1, -1>>, <<0, -1>>, <<-1, 0>>, <<-1, 1>>, <<0, 1>> >>

BOARD_HEXES ==
    << <<0, 0>>,
       <<1, 0>>, <<1, -1>>, <<0, -1>>, <<-1, 0>>, <<-1, 1>>, <<0, 1>>,
       <<0, -2>>, <<1, -2>>, <<2, -2>>, <<2, -1>>, <<2, 0>>, <<1, 1>>,
       <<0, 2>>, <<-1, 2>>, <<-2, 2>>, <<-2, 1>>, <<-2, 0>>, <<-1, -1>> >>

BoardCells == {BOARD_HEXES[i] : i \in DOMAIN BOARD_HEXES}

isOnBoard(c) == \E i \in DOMAIN BOARD_HEXES : BOARD_HEXES[i] = c

hexDistance(a, b) ==
    (Abs(a[1] - b[1]) + Abs(a[2] - b[2])
        + Abs((0 - a[1] - a[2]) - (0 - b[1] - b[2]))) \div 2

areAdjacent(a, b) == hexDistance(a, b) = 1

getNeighbor(c, d) ==
    createHexCoord(c[1] + DIRECTION_VECTORS[(d % 6) + 1][1],
                   c[2] + DIRECTION_VECTORS[(d % 6) + 1][2])

getDirection(from, to) ==
    IF ~areAdjacent(from, to) THEN -1
    ELSE IF \E i \in 0 .. 5 : getNeighbor(from, i) = to
         THEN CHOOSE i \in 0 .. 5 : getNeighbor(from, i) = to
         ELSE -1

getValidNeighbors(c) ==
    {n \in {getNeighbor(c, d) : d \in 0 .. 5} : isOnBoard(n)}

(* ------------------------- islands ------------------------------------- *)
IslandNames == {"Havana", "Nassau", "Tortuga", "Port Royal", "Hispaniola"}
NoIsland == "none"

\* impassable edges, as the numbers of the EdgeDirection enum
ISLAND_DEFINITIONS ==
    [Havana |-> {0, 1}, Nassau |-> {2, 3}, Tortuga |-> {4, 5}]
      @@ ("Port Royal" :> {1, 2}) @@ ("Hispaniola" :> {0, 3})

\* an island without impassable edges
canSailAnywhere(name, direction) == TRUE

canSailInDirection(name, direction) ==
    direction \notin ISLAND_DEFINITIONS[name]

(* ------------------------- chart ids ----------------------------------- *)
\* ChartFactory numbers the charts as they are created: the 19 treasure
\* maps in BOARD_HEXES order (ids 0..18), the 10 smuggler routes (19..28),
\* then the two island raids (29, 30).
SmugglerPairs ==
    << <<"Havana", "Nassau">>, <<"Havana", "Tortuga">>,
       <<"Havana", "Port Royal">>, <<"Havana", "Hispaniola">>,
       <<"Nassau", "Tortuga">>, <<"Nassau", "Port Royal">>,
       <<"Nassau", "Hispaniola">>, <<"Tortuga", "Port Royal">>,
       <<"Tortuga", "Hispaniola">>, <<"Port Royal", "Hispaniola">> >>

TreasureMapIds == 0 .. (Len(BOARD_HEXES) - 1)
SmugglerRouteIds == Len(BOARD_HEXES) .. (Len(BOARD_HEXES) + Len(SmugglerPairs) - 1)
IslandRaidIds ==
    (Len(BOARD_HEXES) + Len(SmugglerPairs)) .. (Len(BOARD_HEXES) + Len(SmugglerPairs) + 1)

chartType(id) ==
    IF id \in TreasureMapIds THEN "TREASURE_MAP"
    ELSE IF id \in SmugglerRouteIds THEN "SMUGGLER_ROUTE"
    ELSE "ISLAND_RAID"

targetHex(id) == BOARD_HEXES[id + 1]
routeIslands(id) == SmugglerPairs[id - Len(BOARD_HEXES) + 1]

createIslandRaid(id, island) ==
    [id |-> id, targetIsland |-> island, doubloonsOnChart |-> 0,
     notorietyReward |-> 4]

(* ------------------------- sequences ----------------------------------- *)
indexOf(seq, x) ==
    IF \E i \in DOMAIN seq : seq[i] = x
    THEN (CHOOSE i \in DOMAIN seq : seq[i] = x /\ \A j \in 1 .. (i - 1) : seq[j] # x) - 1
    ELSE -1

\* splice(index) without a delete count: everything from index on goes
spliceFrom(seq, index) == SubSeq(seq, 1, index)

\* Array.prototype.splice(index, 1), index counted from 0
splice1(seq, index) ==
    [i \in 1 .. (Len(seq) - 1) |-> IF i <= index THEN seq[i] ELSE seq[i + 1]]

RECURSIVE SumOver(_, _)
SumOver(S, f) ==
    IF S = {} THEN 0
    ELSE LET x == CHOOSE y \in S : TRUE IN f[x] + SumOver(S \ {x}, f)

(* ------------------------- BoardLogic ---------------------------------- *)
\* A board is the bag of the ships lying on it, each <<coord, type, player>>;
\* the islands are a function from the cells to an island name or NoIsland.
Ship(coord, type, pid) == <<coord, type, pid>>

getHex(coord) == IF isOnBoard(coord) THEN coord ELSE NullHex

isAdjacent(a, b) == areAdjacent(a, b) /\ isOnBoard(a) /\ isOnBoard(b)

canSailBetween(islands, from, to) ==
    IF ~isAdjacent(from, to) THEN FALSE
    ELSE IF getHex(from) = NullHex \/ getHex(to) = NullHex THEN FALSE
    ELSE IF islands[from] # NoIsland
            /\ getDirection(from, to) # -1
            /\ ~canSailInDirection(islands[from], getDirection(from, to))
         THEN FALSE
    ELSE IF islands[to] # NoIsland
            /\ getDirection(to, from) # -1
            /\ ~canSailInDirection(islands[to], getDirection(to, from))
         THEN FALSE
    ELSE TRUE

placeShip(b, coord, type, pid) ==
    IF getHex(coord) = NullHex THEN b
    ELSE b (+) SetToBag({Ship(coord, type, pid)})

removeShip(b, coord, type, pid) ==
    IF getHex(coord) = NullHex THEN b
    ELSE IF ~BagIn(Ship(coord, type, pid), b) THEN b
    ELSE b (-) SetToBag({Ship(coord, type, pid)})

\* number of ships of one type a player has in a cell
shipsOfType(b, coord, type, pid) == CopiesIn(Ship(coord, type, pid), b)

\* getPlayerShips(...).length
getPlayerShips(b, coord, pid) ==
    SumOver(ShipType, [t \in ShipType |-> shipsOfType(b, coord, t, pid)])

\* hex.ships.length
hexShips(b, coord) ==
    SumOver(Players, [p \in Players |-> getPlayerShips(b, coord, p)])

\* an influence that counts every piece as one
getInfluenceFlat(b, coord, pid) ==
    SumOver(ShipType, [t \in ShipType |-> shipsOfType(b, coord, t, pid)])

getInfluence(b, coord, pid) ==
    SumOver(ShipType,
        [t \in ShipType |-> shipsOfType(b, coord, t, pid) * INFLUENCE_VALUES[t]])

\* the player with strictly the most influence, NoPlayer on a tie or an
\* empty cell
getHexController(b, coord) ==
    IF getHex(coord) = NullHex \/ hexShips(b, coord) = 0 THEN NoPlayer
    ELSE IF \E p \in Players :
              /\ getInfluence(b, coord, p) > 0
              /\ \A o \in Players \ {p} :
                    getInfluence(b, coord, o) < getInfluence(b, coord, p)
         THEN CHOOSE p \in Players :
              /\ getInfluence(b, coord, p) > 0
              /\ \A o \in Players \ {p} :
                    getInfluence(b, coord, o) < getInfluence(b, coord, p)
         ELSE NoPlayer

\* the loop of getHexController over the entries of the influences map, which
\* come in the order in which the players' first ships came into the cell
RECURSIVE scanInfluences(_, _, _, _, _, _)
scanInfluences(b, coord, order, maxInfluence, controller, tieExists) ==
    IF order = <<>> THEN (IF tieExists THEN NoPlayer ELSE controller)
    ELSE LET influence == getInfluence(b, coord, Head(order))
         IN  IF influence > maxInfluence
             THEN scanInfluences(b, coord, Tail(order), influence, Head(order), FALSE)
             ELSE IF influence = maxInfluence /\ influence > 0
             THEN scanInfluences(b, coord, Tail(order), maxInfluence, controller, TRUE)
             ELSE scanInfluences(b, coord, Tail(order), maxInfluence, controller,
                                 tieExists)

getControlledHexes(b, pid) ==
    {c \in BoardCells : getHexController(b, c) = pid}

(* ------------------------- PlayerLogic --------------------------------- *)
createPlayer(power) ==
    [piratePower |-> power,
     notoriety |-> 0,
     doubloons |-> STARTING_DOUBLOONS,
     captainCount |-> STARTING_CAPTAINS,
     ships |-> [sloops |-> STARTING_SLOOPS, galleons |-> STARTING_GALLEONS],
     portLocation |-> NullHex,
     placedCaptains |-> <<>>,
     charts |-> <<>>]

canPlaceCaptain(pl) == Len(pl.placedCaptains) < pl.captainCount

placeCaptain(pl, action) ==
    IF ~canPlaceCaptain(pl) THEN pl
    ELSE [pl EXCEPT !.placedCaptains = Append(@, action)]

\* a gain that unlocks no captain
gainNotorietyOnly(pl, amount) == [pl EXCEPT !.notoriety = @ + amount]

gainNotoriety(pl, amount) ==
    LET newNotoriety == pl.notoriety + amount
        unlocked == {i \in DOMAIN CAPTAIN_UNLOCK_THRESHOLDS :
                        /\ pl.notoriety < CAPTAIN_UNLOCK_THRESHOLDS[i]
                        /\ newNotoriety >= CAPTAIN_UNLOCK_THRESHOLDS[i]}
    IN  [pl EXCEPT !.notoriety = newNotoriety,
                   !.captainCount = @ + Cardinality(unlocked)]

gainDoubloons(pl, amount) == [pl EXCEPT !.doubloons = @ + amount]

spendDoubloons(pl, amount) ==
    IF pl.doubloons < amount THEN pl
    ELSE [pl EXCEPT !.doubloons = @ - amount]

hasShips(pl, type, count) == pl.ships[type] >= count

spendShips(pl, type, count) ==
    IF ~hasShips(pl, type, count) THEN pl
    ELSE [pl EXCEPT !.ships[type] = @ - count]

\* the inventory as it is when nothing comes back
returnNoShips(pl, type, count) == pl

returnShips(pl, type, count) == [pl EXCEPT !.ships[type] = @ + count]

hasPlayerWon(pl) == pl.notoriety >= WINNING_NOTORIETY

setPortLocation(pl, coord) == [pl EXCEPT !.portLocation = coord]

addChart(pl, chart) == [pl EXCEPT !.charts = Append(@, chart)]

(* ------------------------- pirate powers ------------------------------- *)
getSailMaxDistance(power) == IF power = "THE_SAILOR" THEN 3 ELSE 2

powerCanSailBetween(power, islands, from, to) ==
    IF power = "THE_ISLANDER"
    THEN getHex(from) # NullHex /\ getHex(to) # NullHex
    ELSE canSailBetween(islands, from, to)

canUseSink(power) == power # "THE_PEACEFUL"

modifySinkCost(power, baseCost, movingSloop) ==
    IF power = "THE_RELENTLESS" /\ movingSloop /\ baseCost > 0
    THEN baseCost - 1
    ELSE baseCost

onShipSunk(power, pl) ==
    IF power = "THE_PEACEFUL" THEN gainDoubloons(pl, 1) ELSE pl

onShipStolen(power, pl) ==
    IF power = "THE_PEACEFUL" THEN gainDoubloons(pl, 1) ELSE pl

\* a power that leaves the notoriety of control as it is
keepHexControlNotoriety(power, baseNotoriety) == baseNotoriety

modifyHexControlNotoriety(power, baseNotoriety) ==
    IF power = "THE_RELENTLESS" THEN 0 ELSE baseNotoriety

(* ------------------------- game state ---------------------------------- *)
\* G    : the NotoriousState record of the game definition
\* ctx  : phase, position in the turn order, game-over marker
\* last : the last move made and whether it was rejected
VARIABLES G, ctx, last
vars == <<G, ctx, last>>

\* the outcomes of the random draws of setup() that are explored
IslandLayouts ==
    { (<<1, 0>> :> "Havana") @@ (<<-2, 0>> :> "Nassau")
        @@ (<<-2, 2>> :> "Tortuga") @@ (<<0, -2>> :> "Port Royal")
        @@ (<<-1, -1>> :> "Hispaniola") }

PowerDeals ==
    { <<"THE_SAILOR", "THE_RELENTLESS">>, <<"THE_ISLANDER", "THE_PEACEFUL">> }

RaidDeals == { <<"Havana", "Nassau">> }

placeIslands(layout) ==
    [c \in BoardCells |-> IF c \in DOMAIN layout THEN layout[c] ELSE NoIsland]

RECURSIVE SelectSeq2(_, _)
SelectSeq2(seq, S) ==
    IF seq = <<>> THEN <<>>
    ELSE IF Head(seq) \in S THEN <<Head(seq)>> \o SelectSeq2(Tail(seq), S)
    ELSE SelectSeq2(Tail(seq), S)

\* the treasure maps of the cells without an island, then the routes
deckCharts(layout) ==
    SelectSeq2([i \in 1 .. (Len(BOARD_HEXES) + Len(SmugglerPairs)) |-> i - 1],
               {id \in TreasureMapIds : targetHex(id) \notin DOMAIN layout}
                  \cup SmugglerRouteIds)

DeckOrders(layout) == {deckCharts(layout)}

setup(powers, layout, raids, pile) ==
    [players |-> [p \in Players |-> createPlayer(powers[(p % Len(powers)) + 1])],
     board |-> EmptyBag,
     islands |-> placeIslands(layout),
     chartDeck |->
        [drawPile |-> pile,
         discardPile |-> <<>>,
         islandRaids |->
            << createIslandRaid(Len(BOARD_HEXES) + Len(SmugglerPairs), raids[1]),
               createIslandRaid(Len(BOARD_HEXES) + Len(SmugglerPairs) + 1, raids[2]) >>],
     windDirection |-> "CLOCKWISE",
     windTokenHolder |-> NoPlayer,
     setupComplete |-> [p \in Players |-> FALSE]]

NoMove == [move |-> "none", player |-> NoPlayer, invalid |-> FALSE, data |-> <<>>]

Init ==
    /\ \E powers \in PowerDeals, layout \in IslandLayouts, raids \in RaidDeals :
          \E pile \in DeckOrders(layout) :
             G = setup(powers, layout, raids, pile)
    /\ ctx = [phase |-> "setup", currentPlayer |-> 0, gameover |-> NoPlayer]
    /\ last = NoMove

(* ------------------------- move results -------------------------------- *)
INVALID_MOVE(g) == [G |-> g, invalid |-> TRUE, endTurn |-> FALSE]
Done(g, endTurn) == [G |-> g, invalid |-> FALSE, endTurn |-> endTurn]

(* ------------------------- setup phase --------------------------------- *)
placePortAndShips(g, c, portHex) ==
    LET playerIndex == c.currentPlayer
        player == g.players[playerIndex]
    IN  IF g.setupComplete[playerIndex] THEN INVALID_MOVE(g)
        ELSE IF getHex(portHex) = NullHex THEN INVALID_MOVE(g)
        ELSE IF g.islands[portHex] # NoIsland THEN INVALID_MOVE(g)
        ELSE IF \E i \in Players \ {playerIndex} :
                   /\ g.players[i].portLocation # NullHex
                   /\ g.players[i].portLocation = portHex
             THEN INVALID_MOVE(g)
        ELSE Done([g EXCEPT
                    !.players[playerIndex] =
                        spendShips(setPortLocation(player, portHex), "sloops", 2),
                    !.board = placeShip(placeShip(@, portHex, "SLOOP", playerIndex),
                                        portHex, "SLOOP", playerIndex),
                    !.setupComplete[playerIndex] = TRUE],
                  TRUE)

setupEndIf(g) == \A p \in Players : g.setupComplete[p]

(* ------------------------- place phase --------------------------------- *)
placeOnBegin(g) ==
    [g EXCEPT !.players = [p \in Players |-> [@[p] EXCEPT !.placedCaptains = <<>>]]]

placeCaptainMove(g, c, actionType) ==
    LET player == g.players[c.currentPlayer]
    IN  IF ~canPlaceCaptain(player) THEN INVALID_MOVE(g)
        ELSE Done([g EXCEPT !.players[c.currentPlayer] = placeCaptain(player, actionType)],
                  FALSE)

placeEndIf(g) ==
    \A p \in Players : Len(g.players[p].placedCaptains) >= g.players[p].captainCount

(* ------------------------- play phase: sail ---------------------------- *)
\* moveData = [moves |-> <<[shipType, from, to], ...>>, bribesUsed |-> n]
canSailForPlayer(g, pid, from, to) ==
    powerCanSailBetween(g.players[pid].piratePower, g.islands, from, to)

sailPathValid(g, pid, from, to, maxDistance) ==
    LET distance == hexDistance(from, to)
    IN  IF distance = 0 THEN FALSE
        ELSE IF distance > maxDistance THEN FALSE
        ELSE IF distance = 1 THEN canSailForPlayer(g, pid, from, to)
        ELSE \E neighbor \in getValidNeighbors(from) :
                /\ canSailForPlayer(g, pid, from, neighbor)
                /\ LET remainingDistance == hexDistance(neighbor, to)
                   IN  \/ remainingDistance = 0
                       \/ /\ remainingDistance = 1
                          /\ canSailForPlayer(g, pid, neighbor, to)
                       \/ /\ remainingDistance = 2
                          /\ distance = 3
                          /\ \E n2 \in getValidNeighbors(neighbor) :
                                /\ canSailForPlayer(g, pid, neighbor, n2)
                                /\ hexDistance(n2, to) = 1
                                /\ canSailForPlayer(g, pid, n2, to)

sailMoveValid(g, pid, move, maxDistance) ==
    /\ getHex(move.from) # NullHex
    /\ getHex(move.to) # NullHex
    /\ shipsOfType(g.board, move.from, move.shipType, pid) > 0
    /\ sailPathValid(g, pid, move.from, move.to, maxDistance)

RECURSIVE sailExecute(_, _, _)
sailExecute(b, moves, pid) ==
    IF moves = <<>> THEN b
    ELSE sailExecute(
            placeShip(removeShip(b, Head(moves).from, Head(moves).shipType, pid),
                      Head(moves).to, Head(moves).shipType, pid),
            Tail(moves), pid)

sail(g, c, moveData) ==
    LET pid == c.currentPlayer
        player == g.players[pid]
        captainIndex == indexOf(player.placedCaptains, "SAIL")
        maxDistance == getSailMaxDistance(player.piratePower)
    IN  IF captainIndex = -1 THEN INVALID_MOVE(g)
        ELSE IF moveData.bribesUsed > player.doubloons THEN INVALID_MOVE(g)
        ELSE IF \E i \in DOMAIN moveData.moves :
                   ~sailMoveValid(g, pid, moveData.moves[i], maxDistance)
             THEN INVALID_MOVE(g)
        ELSE Done([g EXCEPT
                    !.players[pid] =
                        [spendDoubloons(player, moveData.bribesUsed) EXCEPT
                            !.placedCaptains = splice1(@, captainIndex)],
                    !.board = sailExecute(@, moveData.moves, pid)],
                  TRUE)

(* ------------------------- play phase: build --------------------------- *)
\* buildData = [hex |-> coord, placements |-> <<shipType, ...>>, bribesUsed |-> n]
countOf(seq, x) == Cardinality({i \in DOMAIN seq : seq[i] = x})

RECURSIVE buildExecute(_, _, _, _)
buildExecute(g, pid, hex, placements) ==
    IF placements = <<>> THEN g
    ELSE buildExecute(
            [g EXCEPT
                !.board = placeShip(@, hex, Head(placements), pid),
                !.players[pid] =
                    IF Head(placements) = "SLOOP"
                    THEN spendShips(@, "sloops", 1)
                    ELSE spendShips(@, "galleons", 1)],
            pid, hex, Tail(placements))

build(g, c, buildData) ==
    LET pid == c.currentPlayer
        player == g.players[pid]
        captainIndex == indexOf(player.placedCaptains, "BUILD")
        hasPlayerPieces == getPlayerShips(g.board, buildData.hex, pid) > 0
        isPortHex == player.portLocation # NullHex
                        /\ player.portLocation = buildData.hex
        hasEnemyPieces == \E o \in Players \ {pid} :
                             getPlayerShips(g.board, buildData.hex, o) > 0
        sloopsNeeded == countOf(buildData.placements, "SLOOP")
        galleonsNeeded == countOf(buildData.placements, "GALLEON")
        paid == [g EXCEPT !.players[pid] = spendDoubloons(@, buildData.bribesUsed)]
        built == buildExecute(paid, pid, buildData.hex, buildData.placements)
    IN  IF captainIndex = -1 THEN INVALID_MOVE(g)
        ELSE IF buildData.bribesUsed > player.doubloons THEN INVALID_MOVE(g)
        ELSE IF getHex(buildData.hex) = NullHex THEN INVALID_MOVE(g)
        ELSE IF ~hasPlayerPieces /\ ~isPortHex THEN INVALID_MOVE(g)
        ELSE IF hasEnemyPieces /\ ~isPortHex THEN INVALID_MOVE(g)
        ELSE IF ~hasShips(player, "sloops", sloopsNeeded) THEN INVALID_MOVE(g)
        ELSE IF ~hasShips(player, "galleons", galleonsNeeded) THEN INVALID_MOVE(g)
        ELSE Done([built EXCEPT
                    !.players[pid].placedCaptains = splice1(@, captainIndex)],
                  TRUE)

(* ------------------------- play phase: steal --------------------------- *)
\* stealData = [hex |-> coord, targetPlayerId |-> p, replaceWithSloop |-> b]
steal(g, c, stealData) ==
    LET pid == c.currentPlayer
        player == g.players[pid]
        target == stealData.targetPlayerId
        captainIndex == indexOf(player.placedCaptains, "STEAL")
        g1 == [g EXCEPT
                !.board = removeShip(@, stealData.hex, "SLOOP", target),
                !.players[target] =
                    onShipStolen(@.piratePower, returnShips(@, "sloops", 1))]
        g2 == IF stealData.replaceWithSloop
              THEN [g1 EXCEPT
                      !.board = placeShip(@, stealData.hex, "SLOOP", pid),
                      !.players[pid] = spendShips(@, "sloops", 1)]
              ELSE g1
    IN  IF captainIndex = -1 THEN INVALID_MOVE(g)
        ELSE IF getHex(stealData.hex) = NullHex THEN INVALID_MOVE(g)
        ELSE IF getPlayerShips(g.board, stealData.hex, pid) = 0 THEN INVALID_MOVE(g)
        ELSE IF shipsOfType(g.board, stealData.hex, "SLOOP", target) = 0
             THEN INVALID_MOVE(g)
        ELSE IF stealData.replaceWithSloop /\ ~hasShips(player, "sloops", 1)
             THEN INVALID_MOVE(g)
        ELSE Done([g2 EXCEPT
                    !.players[pid].placedCaptains = splice1(@, captainIndex)],
                  TRUE)

(* ------------------------- play phase: sink ---------------------------- *)
\* sinkData = [hex, targetPlayerId, targetShipType, bribesUsed,
\*             moveSloopBefore |-> [present, from, to],
\*             additionalSink  |-> [present, shipType, playerId]]
NoSloopMove == [present |-> FALSE, from |-> NullHex, to |-> NullHex]
NoAdditionalSink == [present |-> FALSE, shipType |-> "SLOOP", playerId |-> NoPlayer]

inventoryOf(shipType) == IF shipType = "SLOOP" THEN "sloops" ELSE "galleons"

\* removal of one ship and its return to the owner's inventory
sinkShip(g, hex, shipType, owner) ==
    [g EXCEPT
        !.board = removeShip(@, hex, shipType, owner),
        !.players = IF owner \in Players
                    THEN [@ EXCEPT ![owner] =
                            onShipSunk(@.piratePower,
                                       returnShips(@, inventoryOf(shipType), 1))]
                    ELSE @]

\* the notoriety the acting player gains for the ship sunk
sinkNotorietyStrict(opponent, player, shipType) ==
    IF opponent.notoriety > player.notoriety
    THEN (IF shipType = "SLOOP" THEN 1 ELSE 3)
    ELSE 0

sinkNotoriety(opponent, player, shipType) ==
    IF opponent.notoriety >= player.notoriety
    THEN (IF shipType = "SLOOP" THEN 1 ELSE 3)
    ELSE 0

sink(g, c, sinkData) ==
    LET pid == c.currentPlayer
        player == g.players[pid]
        power == player.piratePower
        captainIndex == indexOf(player.placedCaptains, "SINK")
        mv == sinkData.moveSloopBefore
        target == sinkData.targetPlayerId
        actualBribesUsed == modifySinkCost(power, sinkData.bribesUsed, mv.present)
        playerHasPiecesAtTarget ==
            \/ getPlayerShips(g.board, sinkData.hex, pid) > 0
            \/ mv.present /\ mv.to = sinkData.hex
        g1 == [g EXCEPT !.players[pid] = spendDoubloons(@, actualBribesUsed)]
        g2 == IF mv.present
              THEN [g1 EXCEPT !.board =
                      placeShip(removeShip(@, mv.from, "SLOOP", pid),
                                mv.to, "SLOOP", pid)]
              ELSE g1
        g3 == sinkShip(g2, sinkData.hex, sinkData.targetShipType, target)
        g4 == IF target \in Players
              THEN [g3 EXCEPT !.players[pid] =
                      gainNotoriety(@, sinkNotoriety(g3.players[target], @,
                                                     sinkData.targetShipType))]
              ELSE g3
        g5 == IF sinkData.additionalSink.present
              THEN sinkShip(g4, sinkData.hex, sinkData.additionalSink.shipType,
                            sinkData.additionalSink.playerId)
              ELSE g4
    IN  IF ~canUseSink(power) THEN INVALID_MOVE(g)
        ELSE IF captainIndex = -1 THEN INVALID_MOVE(g)
        ELSE IF actualBribesUsed > player.doubloons THEN INVALID_MOVE(g)
        ELSE IF mv.present
                /\ (\/ getHex(mv.from) = NullHex
                    \/ getHex(mv.to) = NullHex
                    \/ ~canSailBetween(g.islands, mv.from, mv.to)
                    \/ shipsOfType(g.board, mv.from, "SLOOP", pid) = 0)
             THEN INVALID_MOVE(g)
        ELSE IF getHex(sinkData.hex) = NullHex THEN INVALID_MOVE(g)
        ELSE IF ~playerHasPiecesAtTarget THEN INVALID_MOVE(g)
        ELSE IF target \notin Players
                \/ shipsOfType(g.board, sinkData.hex, sinkData.targetShipType, target) = 0
             THEN INVALID_MOVE(g)
        ELSE IF sinkData.targetShipType = "GALLEON"
                /\ getInfluence(g.board, sinkData.hex, pid)
                      < getInfluence(g.board, sinkData.hex, target)
             THEN INVALID_MOVE(g)
        ELSE Done([g5 EXCEPT
                    !.players[pid].placedCaptains = splice1(@, captainIndex)],
                  TRUE)

(* ------------------------- play phase: chart --------------------------- *)
\* chartData = [drawExtra, keepExtra, bribesUsed, selectedChartIds |-> <<id, ...>>]
includes(seq, x) == \E i \in DOMAIN seq : seq[i] = x

\* Array.prototype.splice(0, n): the removed front and what is left
takeFront(seq, n) == SubSeq(seq, 1, IF n < Len(seq) THEN n ELSE Len(seq))
dropFront(seq, n) == SubSeq(seq, (IF n < Len(seq) THEN n ELSE Len(seq)) + 1, Len(seq))

Shuffles(seq) ==
    {[i \in DOMAIN seq |-> seq[f[i]]] : f \in Permutations(DOMAIN seq)}

chartDrawCount(chartData) == IF chartData.drawExtra THEN 3 ELSE 2
chartKeepCount(chartData) == IF chartData.keepExtra THEN 2 ELSE 1

\* the draw pile the handler goes on with: reshuffled from the discard pile
\* when it is shorter than the draw
chartPiles(g, chartData) ==
    IF Len(g.chartDeck.drawPile) < chartDrawCount(chartData)
    THEN Shuffles(g.chartDeck.drawPile \o g.chartDeck.discardPile)
    ELSE {g.chartDeck.drawPile}

\* a draw that never turns to the discard pile
chartNeverReshuffles(g, chartData) == FALSE

chartNeedsReshuffle(g, chartData) ==
    Len(g.chartDeck.drawPile) < chartDrawCount(chartData)

RECURSIVE SelectSeqBy(_, _)
SelectSeqBy(seq, keep) ==
    IF seq = <<>> THEN <<>>
    ELSE IF keep[1] THEN <<Head(seq)>> \o SelectSeqBy(Tail(seq), Tail(keep))
    ELSE SelectSeqBy(Tail(seq), Tail(keep))

\* `pile` is the outcome of the reshuffle, one of chartPiles(g, chartData)
chart(g, c, chartData, pile) ==
    LET pid == c.currentPlayer
        player == g.players[pid]
        captainIndex == indexOf(player.placedCaptains, "CHART")
        drawCount == chartDrawCount(chartData)
        keepCount == chartKeepCount(chartData)
        selected == chartData.selectedChartIds
        g0 == IF chartNeedsReshuffle(g, chartData)
              THEN [g EXCEPT !.chartDeck.drawPile = pile,
                             !.chartDeck.discardPile = <<>>]
              ELSE g
        drawnCharts == takeFront(g0.chartDeck.drawPile, drawCount)
        actualKeepCount == IF keepCount < Len(drawnCharts)
                           THEN keepCount ELSE Len(drawnCharts)
        keepFlags == IF Len(selected) > 0
                     THEN [i \in DOMAIN drawnCharts |-> includes(selected, drawnCharts[i])]
                     ELSE [i \in DOMAIN drawnCharts |-> i <= actualKeepCount]
        kept == SelectSeqBy(drawnCharts, keepFlags)
        rest == SelectSeqBy(drawnCharts, [i \in DOMAIN drawnCharts |-> ~keepFlags[i]])
        g1 == [g0 EXCEPT
                !.players[pid] =
                    [spendDoubloons(@, chartData.bribesUsed) EXCEPT
                        !.charts = @ \o kept,
                        !.placedCaptains = splice1(@, captainIndex)],
                !.chartDeck.drawPile = dropFront(@, drawCount),
                !.chartDeck.discardPile = @ \o rest,
                !.windTokenHolder = pid]
    IN  IF captainIndex = -1 THEN INVALID_MOVE(g)
        ELSE IF chartData.bribesUsed > player.doubloons THEN INVALID_MOVE(g)
        ELSE IF Len(selected) > 0 /\ Len(selected) # keepCount THEN INVALID_MOVE(g0)
        ELSE Done(g1, TRUE)

(* ------------------------- play phase: pass ---------------------------- *)
pass(g, c) == Done(g, TRUE)

playEndIf(g) == \A p \in Players : Len(g.players[p].placedCaptains) = 0

(* ------------------------- path search --------------------------------- *)
\* HexMath.findPath: breadth-first, neighbours taken in DIRECTION_VECTORS
\* order; the queue holds the paths found so far.
RECURSIVE scanNeighbors(_, _, _, _, _, _)
scanNeighbors(islands, path, d, queue, visited, end) ==
    IF d > 5 THEN [found |-> FALSE, path |-> <<>>, queue |-> queue, visited |-> visited]
    ELSE LET cur == path[Len(path)]
             neighbor == getNeighbor(cur, d)
         IN  IF \/ neighbor \in visited
                \/ ~isOnBoard(neighbor)
                \/ ~canSailBetween(islands, cur, neighbor)
             THEN scanNeighbors(islands, path, d + 1, queue, visited, end)
             ELSE IF neighbor = end
             THEN [found |-> TRUE, path |-> Append(path, neighbor),
                   queue |-> queue, visited |-> visited]
             ELSE scanNeighbors(islands, path, d + 1,
                                Append(queue, Append(path, neighbor)),
                                visited \cup {neighbor}, end)

RECURSIVE searchQueue(_, _, _, _)
searchQueue(islands, queue, visited, end) ==
    IF queue = <<>> THEN <<>>
    ELSE LET r == scanNeighbors(islands, Head(queue), 0, Tail(queue), visited, end)
         IN  IF r.found THEN r.path
             ELSE searchQueue(islands, r.queue, r.visited, end)

findPathOnBoard(islands, from, to) ==
    IF from = to THEN <<from>>
    ELSE IF ~isOnBoard(to) THEN <<>>
    ELSE searchQueue(islands, << <<from>> >>, {from}, to)

getIslandByName(islands, name) ==
    IF \E c \in BoardCells : islands[c] = name
    THEN CHOOSE c \in BoardCells : islands[c] = name
    ELSE NullHex

(* ------------------------- pirate phase -------------------------------- *)
pirateOnBegin(g) ==
    [g EXCEPT
        !.players = [p \in Players |->
            LET baseNotoriety == Cardinality(getControlledHexes(g.board, p))
                notoriety == modifyHexControlNotoriety(@[p].piratePower, baseNotoriety)
            IN  IF notoriety > 0 THEN gainNotoriety(@[p], notoriety) ELSE @[p]],
        !.chartDeck.islandRaids =
            [i \in DOMAIN @ |-> [@[i] EXCEPT !.doubloonsOnChart = @ + 1]]]

raidIndex(g, chartId) ==
    IF \E i \in DOMAIN g.chartDeck.islandRaids : g.chartDeck.islandRaids[i].id = chartId
    THEN CHOOSE i \in DOMAIN g.chartDeck.islandRaids :
            /\ g.chartDeck.islandRaids[i].id = chartId
            /\ \A j \in 1 .. (i - 1) : g.chartDeck.islandRaids[j].id # chartId
    ELSE 0

claimTreasureMap(g, pid, chartId) ==
    LET hex == targetHex(chartId)
    IN  IF getHex(hex) = NullHex THEN INVALID_MOVE(g)
        ELSE IF shipsOfType(g.board, hex, "GALLEON", pid) = 0 THEN INVALID_MOVE(g)
        ELSE IF getHexController(g.board, hex) # pid THEN INVALID_MOVE(g)
        ELSE Done([g EXCEPT !.players[pid] = gainDoubloons(@, NumPlayers)], FALSE)

\* a raid that asks for the galleon and the doubloons but not for control
claimRaidByGalleon(g, pid, raid) ==
    LET hex == getIslandByName(g.islands, raid.targetIsland)
    IN  IF shipsOfType(g.board, hex, "GALLEON", pid) = 0 THEN INVALID_MOVE(g)
        ELSE IF raid.doubloonsOnChart < 2 THEN INVALID_MOVE(g)
        ELSE Done([g EXCEPT !.players[pid] =
                      gainDoubloons(gainNotoriety(@, raid.notorietyReward),
                                    raid.doubloonsOnChart)],
                  FALSE)

claimIslandRaid(g, pid, raid) ==
    LET hex == getIslandByName(g.islands, raid.targetIsland)
    IN  IF hex = NullHex THEN INVALID_MOVE(g)
        ELSE IF shipsOfType(g.board, hex, "GALLEON", pid) = 0 THEN INVALID_MOVE(g)
        ELSE IF getHexController(g.board, hex) # pid THEN INVALID_MOVE(g)
        ELSE IF raid.doubloonsOnChart < 2 THEN INVALID_MOVE(g)
        ELSE Done([g EXCEPT !.players[pid] =
                      gainDoubloons(gainNotoriety(@, raid.notorietyReward),
                                    raid.doubloonsOnChart)],
                  FALSE)

\* a claim that looks at the two islands only
claimRouteByEnds(g, pid, chartId) ==
    LET islandA == getIslandByName(g.islands, routeIslands(chartId)[1])
        islandB == getIslandByName(g.islands, routeIslands(chartId)[2])
        path == findPathOnBoard(g.islands, islandA, islandB)
    IN  IF getPlayerShips(g.board, islandA, pid) = 0
           \/ getPlayerShips(g.board, islandB, pid) = 0
        THEN INVALID_MOVE(g)
        ELSE Done([g EXCEPT !.players[pid] = gainDoubloons(@, Len(path))], FALSE)

claimSmugglerRoute(g, pid, chartId) ==
    LET islandA == getIslandByName(g.islands, routeIslands(chartId)[1])
        islandB == getIslandByName(g.islands, routeIslands(chartId)[2])
        path == findPathOnBoard(g.islands, islandA, islandB)
    IN  IF islandA = NullHex \/ islandB = NullHex THEN INVALID_MOVE(g)
        ELSE IF Len(path) = 0 THEN INVALID_MOVE(g)
        ELSE IF \E i \in DOMAIN path : getPlayerShips(g.board, path[i], pid) = 0
             THEN INVALID_MOVE(g)
        ELSE Done([g EXCEPT !.players[pid] = gainDoubloons(@, Len(path))], FALSE)

claimChart(g, c, chartId) ==
    LET pid == c.currentPlayer
        player == g.players[pid]
        inHand == includes(player.charts, chartId)
        isIslandRaid == ~inHand
        ri == raidIndex(g, chartId)
        r == IF inHand
             THEN IF chartType(chartId) = "TREASURE_MAP"
                  THEN claimTreasureMap(g, pid, chartId)
                  ELSE IF chartType(chartId) = "SMUGGLER_ROUTE"
                  THEN claimSmugglerRoute(g, pid, chartId)
                  ELSE INVALID_MOVE(g)
             ELSE IF ri # 0
             THEN claimIslandRaid(g, pid, g.chartDeck.islandRaids[ri])
             ELSE INVALID_MOVE(g)
    IN  IF r.invalid THEN r
        ELSE IF ~isIslandRaid
        THEN Done([r.G EXCEPT
                    !.players[pid].charts = splice1(@, indexOf(@, chartId)),
                    !.chartDeck.discardPile = Append(@, chartId)],
                  FALSE)
        ELSE Done([r.G EXCEPT !.chartDeck.islandRaids = splice1(@, ri - 1)], FALSE)

doneClaiming(g, c) == Done(g, TRUE)

pirateEndIf(g) == FALSE

(* ------------------------- turns and phases ---------------------------- *)
gameEndIf(g) ==
    IF \E p \in Players : hasPlayerWon(g.players[p])
    THEN CHOOSE p \in Players :
            /\ hasPlayerWon(g.players[p])
            /\ \A o \in Players : o < p => ~hasPlayerWon(g.players[o])
    ELSE NoPlayer

phaseEndIf(phase, g) ==
    CASE phase = "setup" -> setupEndIf(g)
      [] phase = "place" -> placeEndIf(g)
      [] phase = "play" -> playEndIf(g)
      [] phase = "pirate" -> pirateEndIf(g)

phaseNext(phase) ==
    CASE phase = "setup" -> "place"
      [] phase = "place" -> "play"
      [] phase = "play" -> "pirate"
      [] phase = "pirate" -> "place"

phaseOnBegin(phase, g) ==
    CASE phase = "place" -> placeOnBegin(g)
      [] phase = "pirate" -> pirateOnBegin(g)
      [] OTHER -> g

turnOrderNext(phase, g, pos) ==
    IF phase = "setup" \/ g.windDirection = "CLOCKWISE"
    THEN (pos + 1) % NumPlayers
    ELSE (pos - 1 + NumPlayers) % NumPlayers

\* play.turn.onBegin: a player without captains ends the turn at once
RECURSIVE turnOnBegin(_, _, _, _)
turnOnBegin(phase, g, pos, fuel) ==
    IF phase = "play" /\ fuel > 0 /\ Len(g.players[pos].placedCaptains) = 0
    THEN turnOnBegin(phase, g, turnOrderNext(phase, g, pos), fuel - 1)
    ELSE pos

RECURSIVE startPhase(_, _, _)
startPhase(phase, g, fuel) ==
    LET g2 == phaseOnBegin(phase, g)
    IN  IF gameEndIf(g2) # NoPlayer
        THEN [G |-> g2,
              ctx |-> [phase |-> phase, currentPlayer |-> 0, gameover |-> gameEndIf(g2)]]
        ELSE IF fuel > 0 /\ phaseEndIf(phase, g2)
        THEN startPhase(phaseNext(phase), g2, fuel - 1)
        ELSE [G |-> g2,
              ctx |-> [phase |-> phase,
                       currentPlayer |-> turnOnBegin(phase, g2, 0, NumPlayers),
                       gameover |-> NoPlayer]]

\* what the framework does after an accepted move: the game's endIf, the
\* phase's endIf, then the endTurn the move asked for
processMove(g, c, endTurn) ==
    IF gameEndIf(g) # NoPlayer
    THEN [G |-> g, ctx |-> [c EXCEPT !.gameover = gameEndIf(g)]]
    ELSE IF phaseEndIf(c.phase, g)
    THEN startPhase(phaseNext(c.phase), g, NumPlayers)
    ELSE IF endTurn
    THEN [G |-> g,
          ctx |-> [c EXCEPT !.currentPlayer =
                     turnOnBegin(c.phase, g,
                                 turnOrderNext(c.phase, g, c.currentPlayer),
                                 NumPlayers)]]
    ELSE [G |-> g, ctx |-> c]

(* ------------------------- actions ------------------------------------- *)
\* a move works on a draft of G: the draft of a move that returns INVALID_MOVE
\* is thrown away, the draft of an accepted move becomes G
Commit(name, data, r) ==
    LET f == IF r.invalid THEN [G |-> G, ctx |-> ctx]
             ELSE processMove(r.G, ctx, r.endTurn)
    IN  /\ G' = f.G
        /\ ctx' = f.ctx
        /\ last' = [move |-> name, player |-> ctx.currentPlayer,
                    invalid |-> r.invalid,
                    data |-> IF r.invalid THEN <<>> ELSE data]

InPhase(phase) == ctx.gameover = NoPlayer /\ ctx.phase = phase

PlacePortAndShips(ports) ==
    /\ InPhase("setup")
    /\ \E portHex \in ports :
          Commit("placePortAndShips", portHex, placePortAndShips(G, ctx, portHex))

PlaceCaptain(kinds) ==
    /\ InPhase("place")
    /\ \E actionType \in kinds[ctx.currentPlayer] :
          Commit("placeCaptain", actionType, placeCaptainMove(G, ctx, actionType))

\* the host ends the turn of the player in the Place phase
EndTurn ==
    /\ InPhase("place")
    /\ Commit("endTurn", <<>>, Done(G, TRUE))

Sail(inputs) ==
    /\ InPhase("play")
    /\ \E moveData \in inputs : Commit("sail", moveData, sail(G, ctx, moveData))

Build(inputs) ==
    /\ InPhase("play")
    /\ \E buildData \in inputs : Commit("build", buildData, build(G, ctx, buildData))

Steal(inputs) ==
    /\ InPhase("play")
    /\ \E stealData \in inputs : Commit("steal", stealData, steal(G, ctx, stealData))

Sink(inputs) ==
    /\ InPhase("play")
    /\ \E sinkData \in inputs : Commit("sink", sinkData, sink(G, ctx, sinkData))

Chart(inputs) ==
    /\ InPhase("play")
    /\ \E chartData \in inputs :
          \E pile \in chartPiles(G, chartData) :
             Commit("chart", chartData, chart(G, ctx, chartData, pile))

Pass ==
    /\ InPhase("play")
    /\ Commit("pass", <<>>, pass(G, ctx))

ClaimChart(ids) ==
    /\ InPhase("pirate")
    /\ \E chartId \in ids : Commit("claimChart", chartId, claimChart(G, ctx, chartId))

DoneClaiming ==
    /\ InPhase("pirate")
    /\ Commit("doneClaiming", <<>>, doneClaiming(G, ctx))

(* ------------------------- inputs of the moves ------------------------- *)
MaxBribes == 1
MaxSailMoves == 2
MaxPlacements == 2

\* the cells the moves are tried on: the open-sea cells SeaA and SeaB next to
\* each other, the island cell Havana next to both, and SeaC two cells from SeaA
SeaA == <<2, 0>>
SeaB == <<1, 1>>
SeaC == <<0, 1>>
Havana == <<1, 0>>
PortInputs == {SeaA, SeaB, Havana}
SailCells == {SeaA, SeaB, SeaC, Havana}

SeqsUpTo(S, n) == UNION {[1 .. k -> S] : k \in 1 .. n}

SailMove(t, f, x) == [shipType |-> t, from |-> f, to |-> x]

SailInputs(moveLists) ==
    {[moves |-> ms, bribesUsed |-> b] : ms \in moveLists, b \in 0 .. MaxBribes}

BuildInputs(cells, placementLists) ==
    {[hex |-> h, placements |-> ps, bribesUsed |-> b] :
        h \in cells, ps \in placementLists, b \in 0 .. MaxBribes}

StealInputs(cells) ==
    {[hex |-> h, targetPlayerId |-> t, replaceWithSloop |-> rep] :
        h \in cells, t \in Players, rep \in BOOLEAN}

SinkInputs(cells, types, moves, extras) ==
    {[hex |-> h, targetPlayerId |-> t, targetShipType |-> ty, bribesUsed |-> b,
      moveSloopBefore |-> mv, additionalSink |-> ad] :
        h \in cells, t \in Players, ty \in types,
        b \in 0 .. MaxBribes, mv \in moves, ad \in extras}

ChartInputs(selections) ==
    {[drawExtra |-> de, keepExtra |-> ke, bribesUsed |-> b, selectedChartIds |-> sel] :
        de \in BOOLEAN, ke \in BOOLEAN, b \in 0 .. MaxBribes, sel \in selections}

\* the actions each player commits captains to
CaptainChoices ==
    (0 :> {"SAIL", "BUILD", "CHART"}) @@ (1 :> {"STEAL", "SINK"})
SailChoices == [p \in Players |-> {"SAIL"}]
BuildChoices == [p \in Players |-> {"BUILD"}]

\* the requests of each specification
GameSails ==
    SailInputs({<<SailMove("SLOOP", SeaA, SeaB)>>,
                <<SailMove("SLOOP", SeaB, SeaA)>>,
                <<SailMove("SLOOP", SeaA, SeaA)>>})
GameBuilds == BuildInputs({SeaA, SeaB}, {<<"SLOOP", "SLOOP">>, <<"GALLEON">>})
GameSteals == StealInputs({SeaA, SeaB})
GameSinks ==
    SinkInputs({SeaA, SeaB}, {"SLOOP", "GALLEON"}, {NoSloopMove}, {NoAdditionalSink})
GameCharts == ChartInputs({<<>>, <<0>>, <<0, 2>>})
FleetMoves ==
    {SailMove("SLOOP", SeaA, SeaB), SailMove("SLOOP", SeaB, SeaA),
     SailMove("SLOOP", SeaA, SeaC), SailMove("SLOOP", SeaA, Havana)}
FleetSails == SailInputs(SeqsUpTo(FleetMoves, MaxSailMoves))
YardBuilds ==
    BuildInputs({SeaA, SeaB}, SeqsUpTo({"SLOOP", "GALLEON", "PORT"}, MaxPlacements))

\* the sink specification: the players sail between the two ports, build a
\* galleon and sink plainly; RaidSinks are the sinks, with every enhancement,
\* that the properties try in each of its states
SinkChoices == (0 :> {"SAIL", "BUILD", "SINK"}) @@ (1 :> {"SAIL", "SINK"})
RaidSails ==
    SailInputs({<<SailMove("SLOOP", SeaA, SeaB)>>,
                <<SailMove("SLOOP", SeaA, SeaB), SailMove("SLOOP", SeaA, SeaB)>>,
                <<SailMove("SLOOP", SeaB, SeaA)>>,
                <<SailMove("SLOOP", SeaB, SeaA), SailMove("SLOOP", SeaB, SeaA)>>})
RaidBuilds == BuildInputs({SeaA, SeaB}, {<<"GALLEON">>})
SloopMove(f, x) == [present |-> TRUE, from |-> f, to |-> x]
SloopMoves ==
    {NoSloopMove, SloopMove(SeaA, SeaB), SloopMove(SeaB, SeaA),
     SloopMove(SeaA, Havana), SloopMove(SeaA, SeaC)}
ExtraSinks ==
    {NoAdditionalSink}
       \cup {[present |-> TRUE, shipType |-> t, playerId |-> p] :
                t \in {"SLOOP", "GALLEON"}, p \in Players}
RaidSinks == SinkInputs({SeaA, SeaB}, {"SLOOP", "GALLEON"}, SloopMoves, ExtraSinks)

(* ------------------------- the game ------------------------------------ *)
Next ==
    \/ PlacePortAndShips(PortInputs)
    \/ PlaceCaptain(CaptainChoices)
    \/ EndTurn
    \/ Sail(GameSails)
    \/ Build(GameBuilds)
    \/ Steal(GameSteals)
    \/ Sink(GameSinks)
    \/ Chart(GameCharts)
    \/ Pass
    \/ ClaimChart(IslandRaidIds)
    \/ DoneClaiming

Spec == Init /\ [][Next]_vars

\* the game with every captain committed to sailing
NextSail ==
    \/ PlacePortAndShips(PortInputs)
    \/ PlaceCaptain(SailChoices)
    \/ EndTurn
    \/ Sail(FleetSails)

SpecSail == Init /\ [][NextSail]_vars

\* the game with every captain committed to building
NextBuild ==
    \/ PlacePortAndShips(PortInputs)
    \/ PlaceCaptain(BuildChoices)
    \/ EndTurn
    \/ Build(YardBuilds)

SpecBuild == Init /\ [][NextBuild]_vars

\* the sink move with its enhancements, on boards made by sails and builds
NextSink ==
    \/ PlacePortAndShips(PortInputs)
    \/ PlaceCaptain(SinkChoices)
    \/ EndTurn
    \/ Sail(RaidSails)
    \/ Build(RaidBuilds)
    \/ Sink(GameSinks)

SpecSink == Init /\ [][NextSink]_vars

(* ------------------------- the scene host ------------------------------ *)
\* The Phaser scene drives a GameState through PhaseManager, ActionExecutor and
\* ChartAction. Player 0 is the human 'player1', player 1 the AI 'ai1'. G holds
\* the GameState's players, board and chart deck; ctx holds currentPhase,
\* activePlayerIndex (currentPlayer), currentRound, the winner, the scene's
\* selected action and the callbacks waiting on their timers.
MaxRounds == 1
MaxGameRounds == 9

scenePlayer(isAI) ==
    [isAI |-> isAI,
     notoriety |-> 0,
     doubloons |-> STARTING_DOUBLOONS,
     captainCount |-> STARTING_CAPTAINS,
     ships |-> [sloops |-> STARTING_SLOOPS, galleons |-> STARTING_GALLEONS],
     portLocation |-> NullHex,
     placedCaptains |-> <<>>,
     charts |-> <<>>]

setupTestScenario(g) ==
    LET b1 == placeShip(placeShip(g.board, <<0, 0>>, "PORT", 0), <<0, 0>>, "SLOOP", 0)
        b2 == placeShip(placeShip(b1, <<1, 0>>, "GALLEON", 0), <<1, 0>>, "SLOOP", 0)
        b3 == placeShip(placeShip(b2, <<-2, 2>>, "PORT", 1), <<-2, 2>>, "SLOOP", 1)
        b4 == placeShip(b3, <<-1, 2>>, "GALLEON", 1)
        b5 == placeShip(placeShip(b4, <<0, 2>>, "SLOOP", 1), <<0, 2>>, "SLOOP", 1)
    IN  [g EXCEPT !.board = b5,
                  !.players[0] = setPortLocation(@, <<0, 0>>),
                  !.players[1] = setPortLocation(@, <<-2, 2>>)]

initializeDeck(raids, pile) ==
    LET allIslandRaids ==
            << createIslandRaid(Len(BOARD_HEXES) + Len(SmugglerPairs), raids[1]),
               createIslandRaid(Len(BOARD_HEXES) + Len(SmugglerPairs) + 1, raids[2]) >>
    IN  [drawPile |-> pile,
         discardPile |-> <<>>,
         activeIslandRaids |-> <<allIslandRaids[1]>>,
         allIslandRaids |-> allIslandRaids]

\* the scene after the GameState is initialized and the test ships are placed
createScene ==
    [G |-> setupTestScenario(
              [players |-> (0 :> scenePlayer(FALSE)) @@ (1 :> scenePlayer(TRUE)),
               board |-> EmptyBag,
               islands |-> [c \in BoardCells |-> NoIsland],
               chartDeck |-> [drawPile |-> <<>>, discardPile |-> <<>>,
                              activeIslandRaids |-> <<>>, allIslandRaids |-> <<>>],
               windDirection |-> "CLOCKWISE",
               windTokenHolder |-> NoPlayer]),
     ctx |-> [phase |-> "SETUP", currentPlayer |-> 0, round |-> 1,
              gameover |-> NoPlayer, selectedAction |-> "none",
              timers |-> [advancePhase |-> 0, endTurn |-> 0]]]

resetCaptains(pl) == [pl EXCEPT !.placedCaptains = <<>>]

hasUnplacedCaptains(pl) == Len(pl.placedCaptains) < pl.captainCount

executePlacePhase(s) ==
    [G |-> [s.G EXCEPT !.players = [p \in Players |-> resetCaptains(@[p])]],
     ctx |-> [s.ctx EXCEPT !.phase = "PLACE", !.currentPlayer = 0]]

allCaptainsPlaced(g) == \A p \in Players : ~hasUnplacedCaptains(g.players[p])

executePlayPhase(s) ==
    [s EXCEPT !.ctx.phase = "PLAY", !.ctx.currentPlayer = 0]

awardNotorietyForControl(g) ==
    [g EXCEPT !.players = [p \in Players |->
        LET notoriety == Cardinality(getControlledHexes(g.board, p))
        IN  IF notoriety > 0 THEN gainNotoriety(@[p], notoriety) ELSE @[p]]]

\* the active raids are the same objects as the entries of allIslandRaids: a
\* raid that is in the active list twice is incremented twice
addDoubloonsToIslandRaids(deck) ==
    LET visits(raid) ==
            Cardinality({i \in DOMAIN deck.activeIslandRaids :
                            deck.activeIslandRaids[i].id = raid.id})
    IN  [deck EXCEPT
            !.activeIslandRaids =
                [i \in DOMAIN @ |->
                    [@[i] EXCEPT !.doubloonsOnChart =
                                    @ + visits(deck.activeIslandRaids[i])]],
            !.allIslandRaids =
                [i \in DOMAIN @ |->
                    [@[i] EXCEPT !.doubloonsOnChart =
                                    @ + visits(deck.allIslandRaids[i])]]]

revealSecondIslandRaid(deck) ==
    IF Len(deck.activeIslandRaids) >= 2 THEN deck
    ELSE IF Len(deck.allIslandRaids) < 2 THEN deck
    ELSE [deck EXCEPT !.activeIslandRaids = Append(@, deck.allIslandRaids[2])]

checkIslandRaidReveal(g) ==
    IF Len(g.chartDeck.activeIslandRaids) >= 2 THEN g
    ELSE IF \E p \in Players : g.players[p].notoriety >= 12
    THEN [g EXCEPT !.chartDeck = revealSecondIslandRaid(@)]
    ELSE g

checkGameEnd(g) == \E p \in Players : hasPlayerWon(g.players[p])

getFinalScore(pl) == pl.notoriety + pl.doubloons

\* the first player, in player order, with the highest final score
determineWinner(g) ==
    CHOOSE p \in Players :
        /\ \A o \in Players : getFinalScore(g.players[o]) <= getFinalScore(g.players[p])
        /\ \A o \in Players :
              o < p => getFinalScore(g.players[o]) < getFinalScore(g.players[p])

nextPhase(s) ==
    CASE s.ctx.phase = "SETUP" -> [s EXCEPT !.ctx.phase = "PLACE"]
      [] s.ctx.phase = "PLACE" -> [s EXCEPT !.ctx.phase = "PLAY"]
      [] s.ctx.phase = "PLAY" -> [s EXCEPT !.ctx.phase = "PIRATE"]
      [] s.ctx.phase = "PIRATE" ->
            IF checkGameEnd(s.G)
            THEN [s EXCEPT !.ctx.phase = "GAME_OVER",
                           !.ctx.gameover = determineWinner(s.G)]
            ELSE [G |-> [s.G EXCEPT !.players =
                            [p \in Players |-> resetCaptains(@[p])]],
                  ctx |-> [s.ctx EXCEPT !.phase = "PLACE", !.round = @ + 1]]
      [] OTHER -> s

executePiratePhase(s) ==
    LET g1 == awardNotorietyForControl(s.G)
        g2 == [g1 EXCEPT !.chartDeck = addDoubloonsToIslandRaids(@)]
        g3 == checkIslandRaidReveal(g2)
        s3 == [G |-> g3, ctx |-> [s.ctx EXCEPT !.phase = "PIRATE"]]
    IN  IF checkGameEnd(g3)
        THEN [s3 EXCEPT !.ctx.phase = "GAME_OVER",
                        !.ctx.gameover = determineWinner(g3)]
        ELSE nextPhase(s3)

advancePhase(s) ==
    CASE s.ctx.phase = "SETUP" -> executePlacePhase(s)
      [] s.ctx.phase = "PLACE" -> executePlayPhase(s)
      [] s.ctx.phase = "PLAY" -> executePiratePhase(s)
      [] s.ctx.phase = "PIRATE" -> executePlacePhase(s)
      [] OTHER -> s

nextTurn(s) ==
    [s EXCEPT !.ctx.currentPlayer =
        IF s.G.windDirection = "CLOCKWISE"
        THEN (@ + 1) % NumPlayers
        ELSE (@ - 1 + NumPlayers) % NumPlayers]

phaseManagerEndTurn(s) ==
    LET previousPlayerIndex == s.ctx.currentPlayer
        allCaptainsUsed ==
            \A p \in Players : Len(s.G.players[p].placedCaptains) = 0
        s1 == nextTurn(s)
        cycledToStart == /\ previousPlayerIndex = NumPlayers - 1
                         /\ s1.ctx.currentPlayer = 0
    IN  IF s.ctx.phase = "PLACE"
        THEN IF allCaptainsPlaced(s.G) THEN advancePhase(s) ELSE s1
        ELSE IF s.ctx.phase = "PLAY"
        THEN IF allCaptainsUsed THEN advancePhase(s)
             ELSE IF cycledToStart /\ allCaptainsUsed THEN advancePhase(s1)
             ELSE s1
        ELSE s

startGame(s, raids, pile) ==
    advancePhase([G |-> [s.G EXCEPT !.chartDeck = initializeDeck(raids, pile)],
                  ctx |-> [s.ctx EXCEPT !.phase = "SETUP", !.round = 1]])

(* ------------------------- the scene's chart action -------------------- *)
\* ChartDeck.drawCharts: cards are popped from the end of the draw pile;
\* `shuffled` is the outcome of the reshuffle of the discard pile
RECURSIVE drawCharts(_, _, _)
drawCharts(deck, count, shuffled) ==
    IF count = 0 THEN [deck |-> deck, drawn |-> <<>>]
    ELSE IF Len(deck.drawPile) = 0 /\ Len(deck.discardPile) = 0
    THEN [deck |-> deck, drawn |-> <<>>]
    ELSE LET d1 == IF Len(deck.drawPile) = 0
                   THEN [deck EXCEPT !.drawPile = shuffled, !.discardPile = <<>>]
                   ELSE deck
             popped == d1.drawPile[Len(d1.drawPile)]
             d2 == [d1 EXCEPT !.drawPile = SubSeq(@, 1, Len(@) - 1)]
             r == drawCharts(d2, count - 1, shuffled)
         IN  [deck |-> r.deck, drawn |-> <<popped>> \o r.drawn]

createStandard(playerId) ==
    [playerId |-> playerId, bribesUsed |-> 0, drawExtra |-> FALSE,
     keepExtra |-> FALSE, selectedChartIds |-> <<>>]

\* a new ChartAction that carries the selection; it has drawn nothing itself
createWithSelection(playerId, bribesUsed, drawExtra, keepExtra, selectedChartIds) ==
    [playerId |-> playerId, bribesUsed |-> bribesUsed, drawExtra |-> drawExtra,
     keepExtra |-> keepExtra, selectedChartIds |-> selectedChartIds]

validatePlayer(g, action) == action.playerId \in Players

chartActionValidate(g, action) ==
    IF ~validatePlayer(g, action) THEN FALSE
    ELSE IF action.bribesUsed > g.players[action.playerId].doubloons THEN FALSE
    ELSE IF Len(action.selectedChartIds) > 0
            /\ Len(action.selectedChartIds) # chartKeepCount(action)
    THEN FALSE
    ELSE TRUE

\* a ChartAction made for the call has drawn nothing yet (drawnCharts is null)
chartActionExecute(g, action, shuffled) ==
    LET pid == action.playerId
        d == drawCharts(g.chartDeck, chartDrawCount(action), shuffled)
        keepFlags == [i \in DOMAIN d.drawn |->
                         includes(action.selectedChartIds, d.drawn[i])]
        chartsToKeep == SelectSeqBy(d.drawn, keepFlags)
        chartsToDiscard ==
            SelectSeqBy(d.drawn, [i \in DOMAIN d.drawn |-> ~keepFlags[i]])
    IN  IF ~chartActionValidate(g, action) THEN [G |-> g, success |-> FALSE]
        ELSE IF Len(action.selectedChartIds) = 0
        THEN [G |-> [g EXCEPT
                        !.players[pid] = IF action.bribesUsed > 0
                                         THEN spendDoubloons(@, action.bribesUsed)
                                         ELSE @,
                        !.chartDeck = d.deck],
              success |-> FALSE]
        ELSE [G |-> [g EXCEPT
                        !.players[pid].charts = @ \o chartsToKeep,
                        !.chartDeck = [d.deck EXCEPT
                                          !.discardPile = @ \o chartsToDiscard],
                        !.windTokenHolder = pid],
              success |-> TRUE]

actionExecutorValidate(s, action) ==
    IF s.ctx.phase # "PLAY" THEN FALSE
    ELSE IF s.ctx.currentPlayer # action.playerId THEN FALSE
    ELSE chartActionValidate(s.G, action)

actionExecutorExecute(s, action, shuffled) ==
    IF ~actionExecutorValidate(s, action) THEN [G |-> s.G, success |-> FALSE]
    ELSE chartActionExecute(s.G, action, shuffled)

(* ------------------------- the claim action ---------------------------- *)
\* ClaimChartAction.validate with the checks of ChartValidator
claimChartActionValidate(g, action) ==
    LET pid == action.playerId
        player == g.players[pid]
        inHand == includes(player.charts, action.chartId)
        activeRaids == g.chartDeck.activeIslandRaids
        found == {i \in DOMAIN activeRaids : activeRaids[i].id = action.chartId}
        raid == activeRaids[CHOOSE i \in found : \A j \in found : i <= j]
        canClaimTreasureMap ==
            LET hex == targetHex(action.chartId)
            IN  /\ getHex(hex) # NullHex
                /\ shipsOfType(g.board, hex, "GALLEON", pid) > 0
                /\ getHexController(g.board, hex) = pid
        canClaimIslandRaid ==
            LET hex == getIslandByName(g.islands, raid.targetIsland)
            IN  /\ hex # NullHex
                /\ shipsOfType(g.board, hex, "GALLEON", pid) > 0
                /\ getHexController(g.board, hex) = pid
                /\ raid.doubloonsOnChart >= 2
        canClaimSmugglerRoute ==
            LET islandA == getIslandByName(g.islands, routeIslands(action.chartId)[1])
                islandB == getIslandByName(g.islands, routeIslands(action.chartId)[2])
                path == findPathOnBoard(g.islands, islandA, islandB)
            IN  /\ islandA # NullHex /\ islandB # NullHex
                /\ Len(path) # 0
                /\ \A i \in DOMAIN path : getPlayerShips(g.board, path[i], pid) > 0
    IN  IF ~validatePlayer(g, action) THEN FALSE
        ELSE IF inHand
        THEN IF chartType(action.chartId) = "TREASURE_MAP" THEN canClaimTreasureMap
             ELSE IF chartType(action.chartId) = "SMUGGLER_ROUTE"
             THEN canClaimSmugglerRoute
             ELSE FALSE
        ELSE IF found = {} THEN FALSE
        ELSE canClaimIslandRaid

\* ClaimChartAction.execute: the reward, then the chart leaves the hand for
\* the discard pile, or the raid leaves the active raids (removeIslandRaid)
claimChartActionExecute(g, action) ==
    LET pid == action.playerId
        player == g.players[pid]
        inHand == includes(player.charts, action.chartId)
        activeRaids == g.chartDeck.activeIslandRaids
        found == {i \in DOMAIN activeRaids : activeRaids[i].id = action.chartId}
        index == CHOOSE i \in found : \A j \in found : i <= j
        routePathLength ==
            Len(findPathOnBoard(g.islands,
                    getIslandByName(g.islands, routeIslands(action.chartId)[1]),
                    getIslandByName(g.islands, routeIslands(action.chartId)[2])))
        notoriety == IF inHand THEN 0 ELSE activeRaids[index].notorietyReward
        doubloons == IF ~inHand THEN activeRaids[index].doubloonsOnChart
                     ELSE IF chartType(action.chartId) = "TREASURE_MAP" THEN NumPlayers
                     ELSE routePathLength
        paid == gainDoubloons(IF notoriety > 0 THEN gainNotoriety(player, notoriety)
                              ELSE player,
                              doubloons)
    IN  IF ~claimChartActionValidate(g, action) THEN [G |-> g, success |-> FALSE]
        ELSE IF inHand
        THEN [G |-> [g EXCEPT
                        !.players[pid] =
                            [paid EXCEPT !.charts = splice1(@, indexOf(@, action.chartId))],
                        !.chartDeck.discardPile = Append(@, action.chartId)],
              success |-> TRUE]
        ELSE [G |-> [g EXCEPT
                        !.players[pid] = paid,
                        !.chartDeck.activeIslandRaids = splice1(@, index - 1)],
              success |-> TRUE]

(* ------------------------- the sail action ----------------------------- *)
createSingleShipMove(playerId, ship, from, to, bribes) ==
    [playerId |-> playerId, moves |-> <<[ship |-> ship, from |-> from, to |-> to]>>,
     bribesUsed |-> bribes]

\* SailAction.validate with isValidPath: one hop, or two over some cell between
sailActionValidate(g, action) ==
    LET pid == action.playerId
        isValidPath(from, to) ==
            IF hexDistance(from, to) = 1 THEN canSailBetween(g.islands, from, to)
            ELSE IF hexDistance(from, to) = 2
            THEN \E neighbor \in getValidNeighbors(from) :
                    /\ hexDistance(neighbor, to) = 1
                    /\ canSailBetween(g.islands, from, neighbor)
                    /\ canSailBetween(g.islands, neighbor, to)
            ELSE FALSE
    IN  IF ~validatePlayer(g, action) THEN FALSE
        ELSE IF action.bribesUsed > g.players[pid].doubloons THEN FALSE
        ELSE \A i \in DOMAIN action.moves :
                LET move == action.moves[i]
                IN  /\ getHex(move.from) # NullHex /\ getHex(move.to) # NullHex
                    /\ shipsOfType(g.board, move.from, move.ship, pid) > 0
                    /\ isValidPath(move.from, move.to)

\* Board.moveShip: the board is left as it is when the two cells cannot be
\* sailed between or the ship is not in the source cell
moveShip(g, from, to, type, pid) ==
    IF ~canSailBetween(g.islands, from, to) THEN g.board
    ELSE IF getHex(from) = NullHex \/ getHex(to) = NullHex THEN g.board
    ELSE IF shipsOfType(g.board, from, type, pid) = 0 THEN g.board
    ELSE placeShip(removeShip(g.board, from, type, pid), to, type, pid)

\* SailAction.execute: the result of moveShip is not looked at
RECURSIVE sailActionMoves(_, _, _)
sailActionMoves(g, moves, pid) ==
    IF moves = <<>> THEN g
    ELSE sailActionMoves(
            [g EXCEPT !.board = moveShip(g, Head(moves).from, Head(moves).to,
                                         Head(moves).ship, pid)],
            Tail(moves), pid)

sailActionExecute(g, action) ==
    LET pid == action.playerId
        g1 == IF action.bribesUsed > 0
              THEN [g EXCEPT !.players[pid] = spendDoubloons(@, action.bribesUsed)]
              ELSE g
    IN  IF ~sailActionValidate(g, action) THEN [G |-> g, success |-> FALSE]
        ELSE [G |-> sailActionMoves(g1, action.moves, pid), success |-> TRUE]

(* ------------------------- the scene's handlers ------------------------ *)
onCaptainPlaced(s, actionType) ==
    LET pid == s.ctx.currentPlayer
        activePlayer == s.G.players[pid]
        s1 == [s EXCEPT !.G.players[pid] = placeCaptain(@, actionType)]
    IN  IF activePlayer.isAI THEN s
        ELSE IF ~canPlaceCaptain(activePlayer) THEN s
        ELSE IF allCaptainsPlaced(s1.G)
        THEN [s1 EXCEPT !.ctx.timers.advancePhase = @ + 1]
        ELSE phaseManagerEndTurn(s1)

onEndTurn(s) == [phaseManagerEndTurn(s) EXCEPT !.ctx.selectedAction = "none"]

onNextPhase(s) == advancePhase(s)

onActionSelected(s, actionType) == [s EXCEPT !.ctx.selectedAction = actionType]

removeCaptainFromAction(s, actionType) ==
    LET pid == s.ctx.currentPlayer
        index == indexOf(s.G.players[pid].placedCaptains, actionType)
    IN  IF index = -1 THEN s
        ELSE [s EXCEPT !.G.players[pid].placedCaptains = splice1(@, index),
                       !.ctx.timers.endTurn = @ + 1]

executeChartAction(s, shuffled) ==
    LET result == actionExecutorExecute(s, createStandard(s.ctx.currentPlayer),
                                        shuffled)
        s1 == [s EXCEPT !.G = result.G]
    IN  IF result.success
        THEN [state |-> [removeCaptainFromAction(s1, "CHART") EXCEPT
                            !.ctx.selectedAction = "none"],
              called |-> TRUE, success |-> TRUE]
        ELSE [state |-> s1, called |-> TRUE, success |-> FALSE]

handleActionExecution(s, shuffled) ==
    LET activePlayer == s.G.players[s.ctx.currentPlayer]
        untouched == [state |-> s, called |-> FALSE, success |-> FALSE]
    IN  IF activePlayer.isAI THEN untouched
        ELSE IF ~includes(activePlayer.placedCaptains, s.ctx.selectedAction)
        THEN untouched
        ELSE IF s.ctx.selectedAction = "CHART" THEN executeChartAction(s, shuffled)
        ELSE untouched

\* `choice` is the outcome of Math.random: the action in the Place phase, the
\* 0-based index of the captain in the Play phase
handleAITurn(s, actionType, randomIndex) ==
    LET pid == s.ctx.currentPlayer
        activePlayer == s.G.players[pid]
        s1 == [s EXCEPT !.G.players[pid] = placeCaptain(@, actionType)]
        s2 == IF Len(activePlayer.placedCaptains) > 0
              THEN [s EXCEPT !.G.players[pid].placedCaptains =
                                splice1(@, randomIndex)]
              ELSE s
    IN  IF ~activePlayer.isAI THEN s
        ELSE IF s.ctx.phase = "PLACE"
        THEN IF ~hasUnplacedCaptains(activePlayer) THEN s
             ELSE IF allCaptainsPlaced(s1.G)
             THEN [s1 EXCEPT !.ctx.timers.advancePhase = @ + 1]
             ELSE phaseManagerEndTurn(s1)
        ELSE IF s.ctx.phase = "PLAY" THEN phaseManagerEndTurn(s2)
        ELSE s

timerCallback(s, callback) ==
    LET s1 == [s EXCEPT !.ctx.timers[callback] = @ - 1]
    IN  IF callback = "advancePhase" THEN advancePhase(s1)
        ELSE phaseManagerEndTurn(s1)

(* ------------------------- the scene's actions ------------------------- *)
Scene == [G |-> G, ctx |-> ctx]

SceneCommit(name, s, rejected) ==
    /\ G' = s.G
    /\ ctx' = s.ctx
    /\ last' = [move |-> name, player |-> ctx.currentPlayer,
                invalid |-> rejected, data |-> <<>>]

SceneLive(rounds) == ctx.round <= rounds

OnCaptainPlaced(rounds, kinds) ==
    /\ SceneLive(rounds)
    /\ ctx.phase = "PLACE"
    /\ \E actionType \in kinds :
          SceneCommit("onCaptainPlaced", onCaptainPlaced(Scene, actionType), FALSE)

OnEndTurn(rounds) ==
    /\ SceneLive(rounds)
    /\ SceneCommit("onEndTurn", onEndTurn(Scene), FALSE)

OnNextPhase(rounds) ==
    /\ SceneLive(rounds)
    /\ SceneCommit("onNextPhase", onNextPhase(Scene), FALSE)

OnActionSelected(rounds, kinds) ==
    /\ SceneLive(rounds)
    /\ ctx.phase = "PLAY"
    /\ \E actionType \in kinds :
          SceneCommit("onActionSelected", onActionSelected(Scene, actionType), FALSE)

OnPointerDown(rounds) ==
    /\ SceneLive(rounds)
    /\ ctx.selectedAction # "none"
    /\ ctx.phase = "PLAY"
    /\ \E shuffled \in Shuffles(G.chartDeck.discardPile) :
          LET r == handleActionExecution(Scene, shuffled)
          IN  SceneCommit("onPointerDown", r.state, r.called /\ ~r.success)

HandleAITurn(rounds, kinds) ==
    /\ SceneLive(rounds)
    /\ G.players[ctx.currentPlayer].isAI
    /\ ctx.phase \in {"PLACE", "PLAY"}
    /\ \E actionType \in kinds :
          \E randomIndex \in 0 .. (Len(G.players[ctx.currentPlayer].placedCaptains) - 1)
                              \cup {0} :
             /\ ctx.phase = "PLACE" => randomIndex = 0
             /\ ctx.phase = "PLAY" => actionType = CHOOSE k \in kinds : TRUE
             /\ SceneCommit("handleAITurn",
                            handleAITurn(Scene, actionType, randomIndex), FALSE)

TimerFires(rounds) ==
    /\ SceneLive(rounds)
    /\ \E callback \in {"advancePhase", "endTurn"} :
          /\ ctx.timers[callback] > 0
          /\ SceneCommit("timer", timerCallback(Scene, callback), FALSE)

HumanChoices == {"CHART", "SAIL"}
AIChoices == {"SAIL", "CHART"}

InitScene ==
    /\ \E layout \in IslandLayouts, raids \in RaidDeals :
          \E pile \in DeckOrders(layout) :
             LET s == startGame(createScene, raids, pile)
             IN  G = s.G /\ ctx = s.ctx
    /\ last = NoMove

\* the first round of the scene, chart draws included
NextScene ==
    \/ OnCaptainPlaced(MaxRounds, HumanChoices)
    \/ OnEndTurn(MaxRounds)
    \/ OnNextPhase(MaxRounds)
    \/ OnActionSelected(MaxRounds, {"CHART"})
    \/ OnPointerDown(MaxRounds)
    \/ HandleAITurn(MaxRounds, AIChoices)
    \/ TimerFires(MaxRounds)

SpecScene == InitScene /\ [][NextScene]_vars

\* the scene played round after round until the game is over
NextRounds ==
    \/ OnCaptainPlaced(MaxGameRounds, {"SAIL"})
    \/ OnEndTurn(MaxGameRounds)
    \/ OnNextPhase(MaxGameRounds)
    \/ HandleAITurn(MaxGameRounds, {"SAIL"})
    \/ TimerFires(MaxGameRounds)

SpecRounds == InitScene /\ [][NextRounds]_vars


(* ------------------------- properties ---------------------------------- *)
ActionMoves == {"sail", "build", "steal", "sink", "chart"}

KindOf(move) ==
    CASE move = "sail" -> "SAIL"
      [] move = "build" -> "BUILD"
      [] move = "steal" -> "STEAL"
      [] move = "sink" -> "SINK"
      [] move = "chart" -> "CHART"

Accepted(moves) == last.move \in moves /\ ~last.invalid

onBoard(b, pid, type) ==
    SumOver(BoardCells, [c \in BoardCells |-> shipsOfType(b, c, type, pid)])

\* C1: for every player and ship kind, the ships of that kind on the board
\* plus those in the inventory are the starting total (4 sloops, 2 galleons)
C1_ShipsConserved ==
    \A p \in Players :
        /\ onBoard(G.board, p, "SLOOP") + G.players[p].ships.sloops = STARTING_SLOOPS
        /\ onBoard(G.board, p, "GALLEON") + G.players[p].ships.galleons
              = STARTING_GALLEONS

\* new is old without one entry that equals kind, the rest in place
RemovedOne(old, new, kind) ==
    \E i \in DOMAIN old :
        /\ old[i] = kind
        /\ new = [j \in 1 .. (Len(old) - 1) |-> IF j < i THEN old[j] ELSE old[j + 1]]

\* C3: sail, build, steal, sink and chart are accepted only when the acting
\* player holds a captain of that kind, and the accepted action takes exactly
\* one captain of that kind from that player and no other captain from anyone
C3_CaptainSpent ==
    [][(last'.move \in ActionMoves /\ ~last'.invalid) =>
          LET p == last'.player
              kind == KindOf(last'.move)
          IN  /\ includes(G.players[p].placedCaptains, kind)
              /\ RemovedOne(G.players[p].placedCaptains,
                            G'.players[p].placedCaptains, kind)
              /\ \A o \in Players \ {p} :
                    G'.players[o].placedCaptains = G.players[o].placedCaptains]_vars

\* an accepted action has just taken one of two captains of its player
C3_Witness ==
    /\ Accepted(ActionMoves)
    /\ ctx.phase = "play"
    /\ Len(G.players[last.player].placedCaptains) = 1

\* C6: when the last player in turn order ends the Pirate-phase turn and nobody
\* is at the win threshold, the game is in Place with all placed captains empty
C6_PirateToPlace ==
    [][(/\ InPhase("pirate")
        /\ ctx.currentPlayer = NumPlayers - 1
        /\ last'.move = "doneClaiming"
        /\ ~last'.invalid
        /\ \A p \in Players : ~hasPlayerWon(G'.players[p]))
       => /\ ctx'.phase = "place"
          /\ \A p \in Players : G'.players[p].placedCaptains = <<>>]_vars

totalDistance(moves) ==
    SumOver(DOMAIN moves,
            [i \in DOMAIN moves |-> hexDistance(moves[i].from, moves[i].to)])

\* C7: an accepted sail moves its ships a total distance of at most the base
\* range of the player (2, Sailor 3) plus one per doubloon spent as a bribe
C7_SailBudget ==
    Accepted({"sail"}) =>
        totalDistance(last.data.moves)
            <= getSailMaxDistance(G.players[last.player].piratePower)
                  + last.data.bribesUsed

hop(g, pid, a, b) == isAdjacent(a, b) /\ canSailForPlayer(g, pid, a, b)

RECURSIVE reachableWithin(_, _, _, _, _)
reachableWithin(g, pid, a, b, n) ==
    IF a = b THEN TRUE
    ELSE IF n = 0 THEN FALSE
    ELSE \E c \in getValidNeighbors(a) :
            hop(g, pid, a, c) /\ reachableWithin(g, pid, c, b, n - 1)

\* C8: a sail of one ship from A to B without bribes is accepted exactly when
\* A differs from B and B is reached from A in at most base-range hops, each
\* between adjacent board cells and traversable for the player
C8_SailPath ==
    InPhase("play") =>
        \A f \in SailCells, t \in SailCells :
            LET pid == ctx.currentPlayer
                pl == G.players[pid]
                req == [moves |-> <<SailMove("SLOOP", f, t)>>, bribesUsed |-> 0]
            IN  (/\ includes(pl.placedCaptains, "SAIL")
                 /\ shipsOfType(G.board, f, "SLOOP", pid) > 0)
                => (~sail(G, ctx, req).invalid
                      <=> /\ f # t
                          /\ reachableWithin(G, pid, f, t,
                                             getSailMaxDistance(pl.piratePower)))

\* C9: an accepted build places exactly 2 sloops or exactly 1 galleon, plus at
\* most one more sloop per doubloon spent as a bribe, and no other piece
C9_BuildShape ==
    Accepted({"build"}) =>
        LET ps == last.data.placements
            b == last.data.bribesUsed
            sloops == countOf(ps, "SLOOP")
            galleons == countOf(ps, "GALLEON")
        IN  /\ sloops + galleons = Len(ps)
            /\ \/ galleons = 0 /\ sloops >= 2 /\ sloops <= 2 + b
               \/ galleons = 1 /\ sloops <= b

\* C10: an accepted steal or sink names a player other than the acting player
C10_OpponentOnly ==
    Accepted({"steal", "sink"}) => last.data.targetPlayerId # last.player

\* C2: whenever a move or action is rejected (INVALID_MOVE, or a result that
\* is not a success), the whole game state is what it was before the call
C2_RejectedUnchanged ==
    [][last'.invalid => G' = G]_vars

\* C5: Place is left for Play only when every player has as many placed
\* captains as captain slots; Play is left only when no player has a placed
\* captain (steps in which the AI spends its captain on the way out are left
\* to the first half)
C5_PhaseGuards ==
    [][/\ (ctx.phase = "PLACE" /\ ctx'.phase = "PLAY")
            => \A p \in Players :
                  Len(G'.players[p].placedCaptains) = G'.players[p].captainCount
       /\ (ctx.phase = "PLAY" /\ ctx'.phase # "PLAY" /\ last'.move # "handleAITurn")
            => \A p \in Players : Len(G.players[p].placedCaptains) = 0]_vars

\* C4: the game does not end in the step in which a player reaches the win
\* threshold: when the game ends, a player was at the threshold before the step
C4_RoundFinishes ==
    [][(ctx.gameover = NoPlayer /\ ctx'.gameover # NoPlayer)
          => \E p \in Players : hasPlayerWon(G.players[p])]_vars

(* ------------------------- properties of sink -------------------------- *)
\* the board on which the sink resolves: the relocated sloop has moved
boardAtSink(g, pid, req) ==
    IF req.moveSloopBefore.present
    THEN placeShip(removeShip(g.board, req.moveSloopBefore.from, "SLOOP", pid),
                   req.moveSloopBefore.to, "SLOOP", pid)
    ELSE g.board

\* what a sink needs besides the influence rule
sinkPreconditions(g, pid, req) ==
    LET pl == g.players[pid]
        mv == req.moveSloopBefore
    IN  /\ canUseSink(pl.piratePower)
        /\ includes(pl.placedCaptains, "SINK")
        /\ modifySinkCost(pl.piratePower, req.bribesUsed, mv.present) <= pl.doubloons
        /\ mv.present => /\ canSailBetween(g.islands, mv.from, mv.to)
                         /\ shipsOfType(g.board, mv.from, "SLOOP", pid) > 0
        /\ isOnBoard(req.hex)
        /\ getPlayerShips(boardAtSink(g, pid, req), req.hex, pid) > 0
        /\ shipsOfType(g.board, req.hex, req.targetShipType, req.targetPlayerId) > 0

\* C11: a sink of a galleon is rejected when the acting player's influence in
\* the target cell, as the sink resolves, is below the owner's, and accepted
\* when the two are equal and the other preconditions hold
C11_GalleonInfluence ==
    InPhase("play") =>
        \A req \in RaidSinks :
            LET pid == ctx.currentPlayer
                b == boardAtSink(G, pid, req)
                mine == getInfluence(b, req.hex, pid)
                theirs == getInfluence(b, req.hex, req.targetPlayerId)
            IN  req.targetShipType = "GALLEON" =>
                   /\ mine < theirs => sink(G, ctx, req).invalid
                   /\ (mine = theirs /\ sinkPreconditions(G, pid, req))
                         => ~sink(G, ctx, req).invalid

\* the same with no sloop relocated
C11_Plain ==
    InPhase("play") =>
        \A req \in {r \in RaidSinks : ~r.moveSloopBefore.present} :
            LET pid == ctx.currentPlayer
                mine == getInfluence(G.board, req.hex, pid)
                theirs == getInfluence(G.board, req.hex, req.targetPlayerId)
            IN  req.targetShipType = "GALLEON" =>
                   /\ mine < theirs => sink(G, ctx, req).invalid
                   /\ (mine = theirs /\ sinkPreconditions(G, pid, req))
                         => ~sink(G, ctx, req).invalid

C11_PlainWitness ==
    /\ InPhase("play")
    /\ \E req \in {r \in RaidSinks : ~r.moveSloopBefore.present} :
          /\ req.targetShipType = "GALLEON"
          /\ req.targetPlayerId # ctx.currentPlayer
          /\ getInfluence(G.board, req.hex, ctx.currentPlayer)
                = getInfluence(G.board, req.hex, req.targetPlayerId)
          /\ ~sink(G, ctx, req).invalid

sinkValue(shipType) == IF shipType = "SLOOP" THEN 1 ELSE 3

\* C12: an accepted sink (of one ship) raises the acting player's notoriety by
\* exactly 1 for a sloop or 3 for a galleon when the owner's notoriety before
\* the sink was at least the acting player's, and by exactly 0 otherwise
C12_PrimaryReward ==
    InPhase("play") =>
        \A req \in {r \in RaidSinks : ~r.additionalSink.present} :
            LET pid == ctx.currentPlayer
                r == sink(G, ctx, req)
                before == G.players[pid].notoriety
                owner == G.players[req.targetPlayerId].notoriety
            IN  ~r.invalid =>
                   r.G.players[pid].notoriety - before
                      = IF owner >= before THEN sinkValue(req.targetShipType) ELSE 0

\* a sink of a less notorious opponent's ship is accepted and earns nothing
C12_Witness ==
    /\ InPhase("play")
    /\ \E req \in {r \in RaidSinks : ~r.additionalSink.present} :
          LET pid == ctx.currentPlayer
              r == sink(G, ctx, req)
          IN  /\ ~r.invalid
              /\ G.players[req.targetPlayerId].notoriety < G.players[pid].notoriety
              /\ r.G.players[pid].notoriety = G.players[pid].notoriety

\* the sinks of an opponent's ship, and those of them with an additional target
OpponentSinks(pid) == {r \in RaidSinks : r.targetPlayerId # pid}
ExtraRequests(pid) == {r \in OpponentSinks(pid) : r.additionalSink.present}

\* the board once the primary target is gone
boardAfterPrimary(g, pid, req) ==
    removeShip(boardAtSink(g, pid, req), req.hex, req.targetShipType,
               req.targetPlayerId)

\* C13: a sink naming an additional target is accepted only if that ship is in
\* the cell, belongs to an opponent and, for a galleon, the acting player's
\* influence there is at least its owner's
C13_ExtraValidated ==
    InPhase("play") =>
        \A req \in ExtraRequests(ctx.currentPlayer) :
            LET pid == ctx.currentPlayer
                extra == req.additionalSink
                b == boardAtSink(G, pid, req)
            IN  ~sink(G, ctx, req).invalid =>
                   /\ shipsOfType(boardAfterPrimary(G, pid, req), req.hex,
                                  extra.shipType, extra.playerId) > 0
                   /\ extra.playerId # pid
                   /\ extra.shipType = "GALLEON" =>
                         getInfluence(b, req.hex, pid)
                            >= getInfluence(b, req.hex, extra.playerId)

\* C14: the additional ship of an accepted sink earns its own reward on top of
\* the primary target's: 1 or 3 when its owner is at least as notorious as the
\* acting player (compared before the action or after the primary reward)
C14_ExtraRewarded ==
    InPhase("play") =>
        \A req \in ExtraRequests(ctx.currentPlayer) :
            LET pid == ctx.currentPlayer
                extra == req.additionalSink
                r == sink(G, ctx, req)
                before == G.players[pid].notoriety
                primary == IF G.players[req.targetPlayerId].notoriety >= before
                           THEN sinkValue(req.targetShipType) ELSE 0
                owner == G.players[extra.playerId].notoriety
                gain == r.G.players[pid].notoriety - before
            IN  (/\ ~r.invalid
                 /\ extra.playerId # pid
                 /\ shipsOfType(boardAfterPrimary(G, pid, req), req.hex,
                                extra.shipType, extra.playerId) > 0)
                => \/ gain = primary + (IF owner >= before
                                        THEN sinkValue(extra.shipType) ELSE 0)
                   \/ gain = primary + (IF owner >= before + primary
                                        THEN sinkValue(extra.shipType) ELSE 0)

\* C15: an accepted sink costs the acting player 1 doubloon for a relocation
\* (nothing for the Relentless) plus 1 doubloon for an additional sink
C15_SinkCost ==
    InPhase("play") =>
        \A req \in OpponentSinks(ctx.currentPlayer) :
            LET pid == ctx.currentPlayer
                pl == G.players[pid]
                r == sink(G, ctx, req)
            IN  ~r.invalid =>
                   pl.doubloons - r.G.players[pid].doubloons
                      = (IF req.moveSloopBefore.present
                            /\ pl.piratePower # "THE_RELENTLESS" THEN 1 ELSE 0)
                        + (IF req.additionalSink.present THEN 1 ELSE 0)

\* every check of sink but those of the relocation itself
sinkBesidesMove(g, pid, req) ==
    LET pl == g.players[pid]
        mv == req.moveSloopBefore
    IN  /\ canUseSink(pl.piratePower)
        /\ includes(pl.placedCaptains, "SINK")
        /\ modifySinkCost(pl.piratePower, req.bribesUsed, mv.present) <= pl.doubloons
        /\ isOnBoard(req.hex)
        /\ getPlayerShips(g.board, req.hex, pid) > 0 \/ mv.to = req.hex
        /\ shipsOfType(g.board, req.hex, req.targetShipType, req.targetPlayerId) > 0
        /\ req.targetShipType = "GALLEON" =>
              getInfluence(g.board, req.hex, pid)
                 >= getInfluence(g.board, req.hex, req.targetPlayerId)

\* C16: the relocation of a sloop from A to B before a sink is accepted exactly
\* when a sail of that sloop from A to B, one cell away, is valid for the player
C16_RelocationAsSail ==
    InPhase("play") =>
        \A req \in {r \in OpponentSinks(ctx.currentPlayer) : r.moveSloopBefore.present} :
            LET pid == ctx.currentPlayer
                mv == req.moveSloopBefore
            IN  sinkBesidesMove(G, pid, req) =>
                   (~sink(G, ctx, req).invalid
                      <=> /\ hexDistance(mv.from, mv.to) = 1
                          /\ sailMoveValid(G, pid, SailMove("SLOOP", mv.from, mv.to),
                                           getSailMaxDistance(
                                              G.players[pid].piratePower)))

(* ------------------------- properties of steal ------------------------- *)
OpponentSteals(pid) == {r \in GameSteals : r.targetPlayerId # pid}

\* the ships of the board before and after a steal, and the two it is about
stealShips(g, h, req, pid) ==
    BagToSet(g.board) \cup BagToSet(h.board)
        \cup {Ship(req.hex, "SLOOP", pid), Ship(req.hex, "SLOOP", req.targetPlayerId)}

\* C17: a steal is rejected if the named opponent has no sloop in the cell or
\* the acting player has no ship there; an accepted steal takes exactly one
\* sloop of the opponent off the cell into the opponent's inventory and, only
\* when a replacement is requested and the acting player has a sloop in the
\* inventory, puts one sloop of the acting player's inventory on the cell
C17_Steal ==
    InPhase("play") =>
        \A req \in OpponentSteals(ctx.currentPlayer) :
            LET pid == ctx.currentPlayer
                target == req.targetPlayerId
                r == steal(G, ctx, req)
                placed == IF req.replaceWithSloop THEN 1 ELSE 0
            IN  /\ \/ shipsOfType(G.board, req.hex, "SLOOP", target) = 0
                   \/ getPlayerShips(G.board, req.hex, pid) = 0
                   => r.invalid
                /\ ~r.invalid =>
                      /\ req.replaceWithSloop => G.players[pid].ships["sloops"] >= 1
                      /\ \A s \in stealShips(G, r.G, req, pid) :
                            CopiesIn(s, r.G.board) =
                               CopiesIn(s, G.board)
                                 - (IF s = Ship(req.hex, "SLOOP", target) THEN 1 ELSE 0)
                                 + (IF s = Ship(req.hex, "SLOOP", pid) THEN placed ELSE 0)
                      /\ r.G.players[target].ships =
                            [G.players[target].ships EXCEPT !["sloops"] = @ + 1]
                      /\ r.G.players[pid].ships =
                            [G.players[pid].ships EXCEPT !["sloops"] = @ - placed]

\* a sloop of the opponent has been stolen and replaced
C17_Witness ==
    /\ last.move = "steal"
    /\ ~last.invalid
    /\ last.data.targetPlayerId # last.player
    /\ last.data.replaceWithSloop

(* ------------------------- properties of chart ------------------------- *)
SeqElems(seq) == {seq[i] : i \in DOMAIN seq}

\* the cards a chart action is entitled to draw from the pile it goes on with
quotaDrawn(pile, req) == SubSeq(pile, 1, chartDrawCount(req))

\* what came onto the end of a sequence
suffixFrom(before, after) == SubSeq(after, Len(before) + 1, Len(after))

SelectingCharts == {r \in GameCharts : Len(r.selectedChartIds) > 0}

\* C18: a completed chart action takes exactly the draw quota of cards off the
\* draw pile, adds exactly the keep quota of them, the selected ones, to the
\* hand of the acting player and puts the other drawn cards on the discard
\* pile; every selected id is the id of a card drawn by the action
C18_ChartQuota ==
    InPhase("play") =>
        \A req \in SelectingCharts : \A pile \in chartPiles(G, req) :
            LET pid == ctx.currentPlayer
                r == chart(G, ctx, req, pile)
                drawn == quotaDrawn(pile, req)
                kept == suffixFrom(G.players[pid].charts, r.G.players[pid].charts)
                discard0 == IF chartNeedsReshuffle(G, req)
                            THEN <<>> ELSE G.chartDeck.discardPile
                discarded == suffixFrom(discard0, r.G.chartDeck.discardPile)
            IN  ~r.invalid =>
                   /\ Len(pile) >= chartDrawCount(req)
                   /\ r.G.chartDeck.drawPile =
                         SubSeq(pile, chartDrawCount(req) + 1, Len(pile))
                   /\ SeqElems(req.selectedChartIds) \subseteq SeqElems(drawn)
                   /\ Len(kept) = chartKeepCount(req)
                   /\ SeqElems(kept) = SeqElems(req.selectedChartIds)
                   /\ SeqElems(discarded) = SeqElems(drawn) \ SeqElems(kept)
                   /\ Len(discarded) = chartDrawCount(req) - chartKeepCount(req)

\* C19: a chart call without a selection, or with a selection of another size
\* than the keep quota, is rejected: no card comes into the hand, no captain
\* is consumed and the wind token is not granted
C19_ExplicitSelection ==
    InPhase("play") =>
        \A req \in GameCharts : \A pile \in chartPiles(G, req) :
            LET pid == ctx.currentPlayer
                r == chart(G, ctx, req, pile)
            IN  Len(req.selectedChartIds) # chartKeepCount(req) =>
                   \/ r.invalid
                   \/ /\ r.G.players[pid].charts = G.players[pid].charts
                      /\ r.G.players[pid].placedCaptains = G.players[pid].placedCaptains
                      /\ r.G.windTokenHolder = G.windTokenHolder

\* the requests whose selection has the size of the keep quota and names
\* cards of the draw
WellSelected(g, pile) ==
    {r \in GameCharts :
        /\ Len(r.selectedChartIds) = chartKeepCount(r)
        /\ SeqElems(r.selectedChartIds) \subseteq SeqElems(quotaDrawn(pile, r))
        /\ Cardinality(SeqElems(r.selectedChartIds)) = Len(r.selectedChartIds)}

\* C20: the doubloons a completed chart action deducts are 1 if it drew three
\* cards plus 1 if it kept two, and a chart is rejected when the player holds
\* fewer doubloons than the extras it asks for cost
C20_ChartCost ==
    InPhase("play") =>
        \A req \in GameCharts : \A pile \in chartPiles(G, req) :
            req \in WellSelected(G, pile) =>
                LET pid == ctx.currentPlayer
                    r == chart(G, ctx, req, pile)
                    drew == Len(pile) - Len(r.G.chartDeck.drawPile)
                    kept == Len(r.G.players[pid].charts) - Len(G.players[pid].charts)
                    asked == (IF req.drawExtra THEN 1 ELSE 0)
                                + (IF req.keepExtra THEN 1 ELSE 0)
                IN  /\ G.players[pid].doubloons < asked => r.invalid
                    /\ ~r.invalid =>
                          G.players[pid].doubloons - r.G.players[pid].doubloons
                             = (IF drew = 3 THEN 1 ELSE 0) + (IF kept = 2 THEN 1 ELSE 0)

(* ------------------------- properties of the chart protocol ------------ *)
\* the ChartActions of the two steps: the draw, and the finalize that
\* createWithSelection makes from the same parameters and the selection
ChartOptions ==
    {[bribesUsed |-> b, drawExtra |-> de, keepExtra |-> ke] :
        b \in 0 .. MaxBribes, de \in BOOLEAN, ke \in BOOLEAN}

drawStep(pid, opt) ==
    createWithSelection(pid, opt.bribesUsed, opt.drawExtra, opt.keepExtra, <<>>)

finalizeStep(pid, opt, selection) ==
    createWithSelection(pid, opt.bribesUsed, opt.drawExtra, opt.keepExtra, selection)

\* the selections of the keep quota among the drawn cards
Selections(drawn, opt) ==
    {sel \in SeqsUpTo(SeqElems(drawn), 2) :
        /\ Len(sel) = chartKeepCount(opt)
        /\ Cardinality(SeqElems(sel)) = Len(sel)}

\* C21: in the two-step chart protocol the finalize step keeps or discards
\* exactly the cards of the preceding draw step of the same player: it draws
\* nothing more from the deck, the bribe is charged once, and every card of
\* the draw step ends in the hand of the player or on the discard pile
C21_FinalizeKeepsDraw ==
    /\ ctx.phase = "PLAY"
    /\ includes(G.players[ctx.currentPlayer].placedCaptains, "CHART")
    =>
        \A opt \in ChartOptions : \A shuffled \in Shuffles(G.chartDeck.discardPile) :
            LET pid == ctx.currentPlayer
                r1 == actionExecutorExecute(Scene, drawStep(pid, opt), shuffled)
                drawn == drawCharts(G.chartDeck, chartDrawCount(opt), shuffled).drawn
                s1 == [Scene EXCEPT !.G = r1.G]
            IN  actionExecutorValidate(Scene, drawStep(pid, opt)) =>
                  \A sel \in Selections(drawn, opt) :
                    \A again \in Shuffles(r1.G.chartDeck.discardPile) :
                      LET r2 == actionExecutorExecute(s1, finalizeStep(pid, opt, sel),
                                                      again)
                      IN  r2.success =>
                            /\ r2.G.chartDeck.drawPile = r1.G.chartDeck.drawPile
                            /\ r2.G.players[pid].charts = G.players[pid].charts \o sel
                            /\ r2.G.players[pid].doubloons =
                                  G.players[pid].doubloons - opt.bribesUsed
                            /\ SeqElems(drawn) \subseteq
                                  SeqElems(r2.G.players[pid].charts)
                                     \cup SeqElems(r2.G.chartDeck.discardPile)

(* ------------------------- properties of the chart deck ---------------- *)
\* The draw of the chart move and of ChartDeck.drawCharts on a deck that
\* earlier draws have run down: the cards still in the game are among the
\* first MaxDeckCards of the deck, some on the draw pile and some discarded.
MaxDeckCards == 4

DeckCards == UNION {SeqElems(takeFront(deckCharts(l), MaxDeckCards)) : l \in IslandLayouts}

\* both players in their ports, a captain of each on the chart action
charting(powers, layout, raids, pile) ==
    LET g0 == setup(powers, layout, raids, pile)
        g1 == placePortAndShips(g0, [currentPlayer |-> 0], SeaB).G
        g2 == placePortAndShips(g1, [currentPlayer |-> 1], SeaA).G
    IN  [g2 EXCEPT !.players =
            [p \in Players |-> placeCaptain(placeCaptain(@[p], "CHART"), "SAIL")]]

InitDeck ==
    /\ \E powers \in PowerDeals, layout \in IslandLayouts, raids \in RaidDeals :
          \E pile \in DeckOrders(layout) :
             \E onDraw \in SUBSET DeckCards : \E onDiscard \in SUBSET (DeckCards \ onDraw) :
                G = [charting(powers, layout, raids, pile) EXCEPT
                        !.chartDeck.drawPile = SelectSeq2(pile, onDraw),
                        !.chartDeck.discardPile = SelectSeq2(pile, onDiscard)]
    /\ ctx = [phase |-> "play", currentPlayer |-> 0, gameover |-> NoPlayer]
    /\ last = NoMove

DeckCharts == ChartInputs({<<>>, <<0>>})

NextDeck == Chart(DeckCharts)

SpecDeck == InitDeck /\ [][NextDeck]_vars

cardsOf(deck) == SeqElems(deck.drawPile) \cup SeqElems(deck.discardPile)

DrawsOfTwo == {r \in DeckCharts : ~r.drawExtra}

\* C22: a chart draw of 2 from a draw pile of exactly 1 card reshuffles the
\* discard pile into the draw pile before the draw completes: 2 cards are
\* drawn whenever the two piles hold at least 2 cards, and right after the
\* draw, before the unselected cards are discarded, the discard pile is empty
C22_ReshuffleDraw ==
    InPhase("play") /\ Len(G.chartDeck.drawPile) = 1 =>
        LET deck == G.chartDeck
            total == Len(deck.drawPile) + Len(deck.discardPile)
            quota == IF total >= 2 THEN 2 ELSE total
        IN  /\ \A req \in DrawsOfTwo : \A pile \in chartPiles(G, req) :
                  LET r == chart(G, ctx, req, pile)
                      drawn == cardsOf(deck) \ SeqElems(r.G.chartDeck.drawPile)
                  IN  ~r.invalid =>
                         /\ Cardinality(drawn) = quota
                         /\ Len(r.G.chartDeck.drawPile) = total - quota
                         /\ SeqElems(r.G.chartDeck.discardPile) \subseteq drawn
            /\ \A shuffled \in Shuffles(deck.discardPile) :
                  LET d == drawCharts(deck, 2, shuffled)
                  IN  /\ Len(d.drawn) = quota
                      /\ Cardinality(SeqElems(d.drawn)) = quota
                      /\ Len(d.deck.drawPile) = total - quota
                      /\ d.deck.discardPile = <<>>
                      /\ SeqElems(d.drawn) \cup SeqElems(d.deck.drawPile) = cardsOf(deck)

\* a chart has left one card on the draw pile, with cards on the discard pile,
\* and the next draw of 2 takes two cards and leaves none of the earlier
\* discards on the discard pile
C22_Witness ==
    /\ InPhase("play")
    /\ last.move = "chart" /\ ~last.invalid
    /\ Len(G.chartDeck.drawPile) = 1
    /\ Len(G.chartDeck.discardPile) >= 2
    /\ \E req \in DrawsOfTwo : \E pile \in chartPiles(G, req) :
          LET r == chart(G, ctx, req, pile)
          IN  /\ ~r.invalid
              /\ Len(r.G.players[ctx.currentPlayer].charts)
                    + Len(r.G.chartDeck.discardPile) = 2
              /\ Len(r.G.chartDeck.drawPile) = Len(G.chartDeck.discardPile) - 1

(* ------------------------- properties of pass -------------------------- *)
\* C23: a pass consumes exactly one of the placed captains of the acting
\* player and changes nothing else: board, inventories, doubloons, notoriety
\* and charts stay as they are
C23_PassForfeits ==
    InPhase("play") /\ Len(G.players[ctx.currentPlayer].placedCaptains) > 0 =>
        LET pid == ctx.currentPlayer
            r == pass(G, ctx)
            captains == G.players[pid].placedCaptains
            left == r.G.players[pid].placedCaptains
        IN  /\ ~r.invalid
            /\ \E i \in DOMAIN captains : left = splice1(captains, i - 1)
            /\ r.G = [G EXCEPT !.players[pid].placedCaptains = left]

(* ------------------------- properties of the final standing ------------ *)
\* The last round of a game: each player is within MaxLead of the winning
\* notoriety and holds up to MaxPurse doubloons from claimed charts.
MaxLead == 3
MaxPurse == 2

unlockedCaptains(notoriety) ==
    Cardinality({i \in DOMAIN CAPTAIN_UNLOCK_THRESHOLDS :
                    CAPTAIN_UNLOCK_THRESHOLDS[i] <= notoriety})

lateGame(g, notoriety, doubloons) ==
    checkIslandRaidReveal(
        [g EXCEPT !.players =
            [p \in Players |->
                [@[p] EXCEPT !.notoriety = notoriety[p],
                             !.doubloons = doubloons[p],
                             !.captainCount =
                                 STARTING_CAPTAINS + unlockedCaptains(notoriety[p])]]])

InitStanding ==
    /\ \E layout \in IslandLayouts, raids \in RaidDeals :
          \E pile \in DeckOrders(layout) :
             \E notoriety \in [Players ->
                                 (WINNING_NOTORIETY - MaxLead) .. (WINNING_NOTORIETY - 1)],
                doubloons \in [Players -> 0 .. MaxPurse] :
                LET s == startGame(createScene, raids, pile)
                IN  /\ G = lateGame(s.G, notoriety, doubloons)
                    /\ ctx = s.ctx
    /\ last = NoMove

SpecStanding == InitStanding /\ [][NextRounds]_vars

topNotoriety(g) ==
    CHOOSE n \in {g.players[p].notoriety : p \in Players} :
        \A p \in Players : g.players[p].notoriety <= n

\* the winner has the highest notoriety and, of those who have it, the most
\* doubloons
isFirst(g, w) ==
    /\ g.players[w].notoriety = topNotoriety(g)
    /\ \A o \in Players :
          g.players[o].notoriety = topNotoriety(g)
             => g.players[o].doubloons <= g.players[w].doubloons

\* C24: when the game ends, the winner declared is a player with the highest
\* notoriety of all and, among the players tied on it, the one with the most
\* doubloons
C24_Winner ==
    /\ ctx.gameover # NoPlayer => isFirst(G, ctx.gameover)
    /\ gameEndIf(G) # NoPlayer => isFirst(G, gameEndIf(G))

(* ------------------------- properties of the captain slots ------------- *)
MaxGain == 8

\* the unlock thresholds a gain from old to new crosses
crossed(old, new) ==
    Cardinality({i \in DOMAIN CAPTAIN_UNLOCK_THRESHOLDS :
                    /\ old < CAPTAIN_UNLOCK_THRESHOLDS[i]
                    /\ CAPTAIN_UNLOCK_THRESHOLDS[i] <= new})

slotsMatchNotoriety ==
    \A p \in Players :
        /\ G.players[p].captainCount =
              STARTING_CAPTAINS + unlockedCaptains(G.players[p].notoriety)
        /\ \A amount \in 0 .. MaxGain :
              gainNotoriety(G.players[p], amount).captainCount =
                 G.players[p].captainCount
                    + crossed(G.players[p].notoriety, G.players[p].notoriety + amount)

summedInfluence(b, coord, pid) ==
    shipsOfType(b, coord, "SLOOP", pid) + 2 * shipsOfType(b, coord, "GALLEON", pid)
        + 3 * shipsOfType(b, coord, "PORT", pid)

strictMax(b, coord, pid) ==
    \A o \in Players \ {pid} :
        summedInfluence(b, coord, o) < summedInfluence(b, coord, pid)

\* the orders in which the players with ships in the cell can come
MapOrders(b, coord) ==
    {order \in SeqsUpTo(Players, NumPlayers) \cup {<<>>} :
        /\ Cardinality(SeqElems(order)) = Len(order)
        /\ SeqElems(order) = {p \in Players : getPlayerShips(b, coord, p) > 0}}

\* C26: the controller of a cell is player P exactly when the summed
\* influence of P in the cell is strictly greater than that of every other
\* player; a cell without ships, or with a tie for the most influence, has no
\* controller
C26_Controller ==
    \A c \in BoardCells :
        /\ \A p \in Players : getHexController(G.board, c) = p <=> strictMax(G.board, c, p)
        /\ \A order \in MapOrders(G.board, c) :
              LET controller == IF hexShips(G.board, c) = 0 THEN NoPlayer
                                ELSE scanInfluences(G.board, c, order, 0, NoPlayer, FALSE)
              IN  /\ controller = getHexController(G.board, c)
                  /\ controller = NoPlayer <=> \A p \in Players : ~strictMax(G.board, c, p)

\* a galleon against a sloop controls the cell, and a sloop against a sloop
\* leaves another cell without a controller
C26_Witness ==
    /\ \E c \in BoardCells : \E a \in Players : \E o \in Players \ {a} :
          /\ getPlayerShips(G.board, c, a) = 1 /\ shipsOfType(G.board, c, "SLOOP", a) = 1
          /\ getPlayerShips(G.board, c, o) = 1 /\ shipsOfType(G.board, c, "GALLEON", o) = 1
          /\ getHexController(G.board, c) = o
    /\ \E c \in BoardCells :
          /\ \A p \in Players :
                getPlayerShips(G.board, c, p) = 1 /\ shipsOfType(G.board, c, "SLOOP", p) = 1
          /\ getHexController(G.board, c) = NoPlayer

\* C27: the port of a player counts toward influence: after setup the
\* influence of the player in the port cell is 3 for the port and 1 for each
\* of the 2 starting sloops, 5 in all
C27_PortInfluence ==
    last.move = "placePortAndShips" /\ ~last.invalid =>
        getInfluence(G.board, G.players[last.player].portLocation, last.player) = 5

(* ------------------------- properties of the island edges -------------- *)
\* the cells of the board and the ring of coordinates around it
ProbeCells == {createHexCoord(q, r) : q \in -3 .. 3, r \in -3 .. 3}

\* the island of cell x blocks the travel from x toward its neighbour y
blocksToward(islands, x, y) ==
    /\ islands[x] # NoIsland
    /\ \E d \in 0 .. 5 :
          /\ getNeighbor(x, d) = y
          /\ d \in ISLAND_DEFINITIONS[islands[x]]

\* C28: canSailBetween(from, to) is true exactly when from and to are
\* adjacent cells of the board and neither has an island whose impassable
\* edges contain the direction from that cell toward the other
C28_CanSailBetween ==
    \A from \in ProbeCells : \A to \in ProbeCells :
        canSailBetween(G.islands, from, to)
           <=> /\ from \in BoardCells /\ to \in BoardCells
               /\ hexDistance(from, to) = 1
               /\ ~blocksToward(G.islands, from, to)
               /\ ~blocksToward(G.islands, to, from)

\* an edge closed by the island of the cell sailed to, next to an open edge
\* of the same island
C28_Witness ==
    \E from \in BoardCells : \E to \in BoardCells : \E open \in BoardCells :
        /\ InPhase("play")
        /\ hexDistance(from, to) = 1 /\ hexDistance(open, to) = 1
        /\ G.islands[from] = NoIsland /\ G.islands[open] = NoIsland
        /\ G.islands[to] # NoIsland
        /\ ~canSailBetween(G.islands, from, to)
        /\ canSailBetween(G.islands, open, to)

\* C29: when the island of cell X blocks direction d toward the neighbour Y,
\* the traversal from X to Y is false, and the traversal from Y to X is false
\* only if the island of Y blocks the opposite direction: the two directions
\* are decided independently
C29_Independent ==
    \A x \in BoardCells : \A y \in BoardCells :
        hexDistance(x, y) = 1 /\ blocksToward(G.islands, x, y) =>
            /\ ~canSailBetween(G.islands, x, y)
            /\ ~canSailBetween(G.islands, y, x) => blocksToward(G.islands, y, x)

(* ------------------------- properties of the path search --------------- *)
\* the cells of the board and one coordinate off the board
PathCells == BoardCells \cup {createHexCoord(3, 0)}

\* the cells reached from the cells of `from` over n traversable edges at most
RECURSIVE sailedWithin(_, _, _)
sailedWithin(islands, from, n) ==
    IF n = 0 THEN from
    ELSE sailedWithin(islands,
                      from \cup {y \in BoardCells :
                                    \E x \in from : /\ hexDistance(x, y) = 1
                                                    /\ canSailBetween(islands, x, y)},
                      n - 1)

\* a sequence of cells of the board from start to end over traversable edges
isPath(islands, path, start, end) ==
    /\ Len(path) > 0
    /\ path[1] = start /\ path[Len(path)] = end
    /\ \A i \in DOMAIN path : isOnBoard(path[i])
    /\ \A i \in 1 .. (Len(path) - 1) :
          /\ hexDistance(path[i], path[i + 1]) = 1
          /\ canSailBetween(islands, path[i], path[i + 1])

pathExists(islands, start, end) ==
    /\ isOnBoard(start) /\ isOnBoard(end)
    /\ end \in sailedWithin(islands, {start}, Cardinality(BoardCells))

\* C30: findPath(start, end) returns a sequence from start to end whose
\* consecutive cells are adjacent, unblocked and traversable, of the least
\* length of all such sequences; it returns the empty sequence when there is
\* none or the end cell is blocked, also when start and end are the same
\* blocked cell
C30_FindPath ==
    \A start \in PathCells : \A end \in PathCells :
        LET path == findPathOnBoard(G.islands, start, end)
        IN  /\ path = <<>> <=> ~pathExists(G.islands, start, end)
            /\ path # <<>> =>
                  /\ isPath(G.islands, path, start, end)
                  /\ Len(path) > 1 =>
                        end \notin sailedWithin(G.islands, {start}, Len(path) - 2)

(* ------------------------- properties of the claims -------------------- *)
\* The Pirate phase of a game under way: player 0 has sloops on some of the
\* cells of the routes Havana-Nassau, Havana-Hispaniola and Nassau-Hispaniola
\* and perhaps a galleon on a raided island, player 1 contests Havana, the
\* raids carry up to MaxBounty doubloons, and player 0 holds route charts.
MaxBounty == 2

ClaimCells ==
    {createHexCoord(1, 0), createHexCoord(0, 0), createHexCoord(-1, 0),
     createHexCoord(-2, 0), createHexCoord(-1, -1)}

RaidCells == {createHexCoord(1, 0), createHexCoord(-2, 0)}

Fleets0 ==
    {{Ship(c, "SLOOP", 0) : c \in S} \cup gs :
        S \in {T \in SUBSET ClaimCells : Cardinality(T) <= STARTING_SLOOPS},
        gs \in {{}} \cup {{Ship(c, "GALLEON", 0)} : c \in RaidCells}}

Fleets1 ==
    {{}, {Ship(Havana, "GALLEON", 1)},
     {Ship(Havana, "SLOOP", 1), Ship(Havana, "GALLEON", 1)}}

ClaimHands == {<<19, 25>>, <<22>>}

afloat(fleet, pid, type) == Cardinality({s \in fleet : s[2] = type /\ s[3] = pid})

claiming(g, fleets, hand, bounty) ==
    [g EXCEPT
        !.board = SetToBag(fleets[0] \cup fleets[1]),
        !.players =
            [p \in Players |->
                [@[p] EXCEPT
                    !.ships = [sloops |-> STARTING_SLOOPS - afloat(fleets[p], p, "SLOOP"),
                               galleons |->
                                   STARTING_GALLEONS - afloat(fleets[p], p, "GALLEON")],
                    !.portLocation = IF p = 0 THEN SeaB ELSE SeaA,
                    !.charts = IF p = 0 THEN hand ELSE <<>>]],
        !.setupComplete = [p \in Players |-> TRUE],
        !.chartDeck.drawPile = SelectSeq2(@, SeqElems(@) \ SeqElems(hand)),
        !.chartDeck.islandRaids =
            [i \in DOMAIN @ |-> [@[i] EXCEPT !.doubloonsOnChart = bounty]]]

InitClaim ==
    /\ \E powers \in PowerDeals, layout \in IslandLayouts, raids \in RaidDeals :
          \E pile \in DeckOrders(layout) :
             \E fleet0 \in Fleets0, fleet1 \in Fleets1, hand \in ClaimHands,
                bounty \in 1 .. MaxBounty :
                G = claiming(setup(powers, layout, raids, pile),
                             (0 :> fleet0) @@ (1 :> fleet1), hand, bounty)
    /\ ctx = [phase |-> "pirate", currentPlayer |-> 0, gameover |-> NoPlayer]
    /\ last = NoMove

ClaimIds == {19, 22, 25} \cup IslandRaidIds

NextClaim ==
    \/ ClaimChart(ClaimIds)
    \/ DoneClaiming

SpecClaim == InitClaim /\ [][NextClaim]_vars

routePath(g, chartId) ==
    findPathOnBoard(g.islands, getIslandByName(g.islands, routeIslands(chartId)[1]),
                    getIslandByName(g.islands, routeIslands(chartId)[2]))

\* what the layouts make of each route: whether its islands are joined at
\* all, and over how many cells at least
layoutOf(g) == CHOOSE l \in IslandLayouts : placeIslands(l) = g.islands

routeEnds(layout, chartId) ==
    [a |-> getIslandByName(placeIslands(layout), routeIslands(chartId)[1]),
     b |-> getIslandByName(placeIslands(layout), routeIslands(chartId)[2])]

JoinedRoutes ==
    [layout \in IslandLayouts |->
        {chartId \in SmugglerRouteIds :
            pathExists(placeIslands(layout), routeEnds(layout, chartId).a,
                       routeEnds(layout, chartId).b)}]

RouteCellCounts ==
    [layout \in IslandLayouts |->
        [chartId \in JoinedRoutes[layout] |->
            CHOOSE n \in 1 .. Cardinality(BoardCells) :
                /\ routeEnds(layout, chartId).b
                      \in sailedWithin(placeIslands(layout),
                                       {routeEnds(layout, chartId).a}, n - 1)
                /\ \A m \in 1 .. (n - 1) :
                      routeEnds(layout, chartId).b
                         \notin sailedWithin(placeIslands(layout),
                                             {routeEnds(layout, chartId).a}, m - 1)]]

\* C31: a Smuggler Route held by the player to move is claimed exactly when a
\* path joins its two islands and the player has a ship on every cell of the
\* shortest path found; the claim pays as many doubloons as that path has
\* cells, and no path between the two islands has fewer
C31_SmugglerRoute ==
    InPhase("pirate") =>
        \A chartId \in SmugglerRouteIds :
            includes(G.players[ctx.currentPlayer].charts, chartId) =>
                LET pid == ctx.currentPlayer
                    r == claimChart(G, ctx, chartId)
                    path == routePath(G, chartId)
                IN  /\ ~r.invalid <=>
                          /\ chartId \in JoinedRoutes[layoutOf(G)]
                          /\ \A i \in DOMAIN path :
                                \E t \in ShipType :
                                    BagIn(Ship(path[i], t, pid), G.board)
                    /\ ~r.invalid =>
                          /\ r.G.players[pid].doubloons
                                = G.players[pid].doubloons + Len(path)
                          /\ Len(path) = RouteCellCounts[layoutOf(G)][chartId]

\* a route of three cells or more has just been claimed
C31_Witness ==
    /\ last.move = "claimChart" /\ ~last.invalid
    /\ last.data \in SmugglerRouteIds
    /\ Len(routePath(G, last.data)) >= 3
    /\ includes(G.chartDeck.discardPile, last.data)

activeRaids(g) == {g.chartDeck.islandRaids[i] : i \in DOMAIN g.chartDeck.islandRaids}

islandCell(g, name) == CHOOSE c \in BoardCells : g.islands[c] = name

\* C32: an Island Raid of the active set is claimed by the player to move
\* exactly when that player has a galleon on the cell of the target island,
\* is the only player with the most influence there, and the chart carries 2
\* doubloons or more; the claim pays 4 notoriety and the doubloons on the chart
C32_IslandRaid ==
    InPhase("pirate") =>
        \A raid \in activeRaids(G) :
            LET pid == ctx.currentPlayer
                r == claimChart(G, ctx, raid.id)
                cell == islandCell(G, raid.targetIsland)
            IN  /\ ~r.invalid <=>
                      /\ BagIn(Ship(cell, "GALLEON", pid), G.board)
                      /\ strictMax(G.board, cell, pid)
                      /\ raid.doubloonsOnChart >= 2
                /\ ~r.invalid =>
                      /\ r.G.players[pid].notoriety = G.players[pid].notoriety + 4
                      /\ r.G.players[pid].doubloons
                            = G.players[pid].doubloons + raid.doubloonsOnChart
                      /\ \A o \in Players \ {pid} : r.G.players[o] = G.players[o]

\* the raid on Havana has just been claimed against a weaker opponent there
C32_Witness ==
    /\ last.move = "claimChart" /\ ~last.invalid
    /\ last.data \in IslandRaidIds
    /\ getPlayerShips(G.board, Havana, 1 - last.player) > 0
    /\ G.players[last.player].notoriety = 4
    /\ G.players[last.player].doubloons >= 2
    /\ \A raid \in activeRaids(G) : raid.id # last.data

(* ------------------------- properties of the raids --------------------- *)
secondRaidId == Len(BOARD_HEXES) + Len(SmugglerPairs) + 1

\* C33: as long as no player has 12 notoriety, the second Island Raid has
\* gathered no doubloons
C33_SecondRaidHidden ==
    (\A p \in Players : G.players[p].notoriety < 12) =>
        \A raid \in activeRaids(G) :
            raid.id = secondRaidId => raid.doubloonsOnChart = 0

\* The scene played round after round, with the islands that
\* setupIslandsAndCharts placed, while the player to move hands claims of the
\* Island Raids to the ActionExecutor.
SceneRaidDeals == {<<"Nassau", "Havana">>}

InitRaids ==
    /\ \E layout \in IslandLayouts, raids \in SceneRaidDeals :
          \E pile \in DeckOrders(layout) :
             LET s == startGame(createScene, raids, pile)
             IN  /\ G = [s.G EXCEPT !.islands = placeIslands(layout)]
                 /\ ctx = s.ctx
    /\ last = NoMove

ClaimRaid(rounds) ==
    /\ SceneLive(rounds)
    /\ ctx.phase = "PLAY"
    /\ \E chartId \in IslandRaidIds :
          LET action == [playerId |-> ctx.currentPlayer, chartId |-> chartId]
              r == claimChartActionExecute(G, action)
          IN  /\ G' = r.G
              /\ ctx' = ctx
              /\ last' = [move |-> "claimChart", player |-> ctx.currentPlayer,
                          invalid |-> ~r.success, data |-> chartId]

NextRaids ==
    \/ NextRounds
    \/ ClaimRaid(MaxGameRounds)

SpecRaids == InitRaids /\ [][NextRaids]_vars

isActiveRaid(g, id) ==
    \E i \in DOMAIN g.chartDeck.activeIslandRaids :
        g.chartDeck.activeIslandRaids[i].id = id

\* a raid gathers doubloons only while it is active and leaves the active
\* raids only when it is claimed: a raid with doubloons that is not active
\* has been claimed
isRetiredRaid(g, id) ==
    /\ ~isActiveRaid(g, id)
    /\ \E i \in DOMAIN g.chartDeck.allIslandRaids :
          /\ g.chartDeck.allIslandRaids[i].id = id
          /\ g.chartDeck.allIslandRaids[i].doubloonsOnChart >= 2

\* C34: an Island Raid that has been claimed is not among the active raids
\* after any later step
C34_RaidRetired ==
    [][\A id \in IslandRaidIds : isRetiredRaid(G, id) => ~isActiveRaid(G', id)]_vars

(* ------------------------- properties of the Pirate phase -------------- *)
\* the cells in which a player has, alone, the most influence
cellsHeld(b, pid) ==
    {c \in BoardCells : summedInfluence(b, c, pid) > 0 /\ strictMax(b, c, pid)}

controlAward(g, pid) ==
    IF g.players[pid].piratePower = "THE_RELENTLESS" THEN 0
    ELSE Cardinality(cellsHeld(g.board, pid))

\* C35: when the Pirate phase begins, each player has gained one notoriety
\* for every cell the player controls on the board the Play phase left, a
\* player with the Relentless power none (the sink move, which pays notoriety
\* of its own, is set aside)
C35_ControlNotoriety ==
    [][(ctx.phase = "play" /\ ctx'.phase = "pirate" /\ last'.move # "sink") =>
          \A p \in Players :
              G'.players[p].notoriety = G.players[p].notoriety + controlAward(G', p)]_vars

\* the Pirate phase has begun: a Relentless player controls a cell and has no
\* notoriety, the other player has the notoriety of the cells controlled
C35_Witness ==
    /\ InPhase("pirate")
    /\ last.move \in {"sail", "build", "steal", "chart", "pass"} /\ ~last.invalid
    /\ \E p \in Players :
          /\ G.players[p].piratePower = "THE_RELENTLESS"
          /\ cellsHeld(G.board, p) # {}
          /\ G.players[p].notoriety = 0
    /\ \E p \in Players :
          /\ G.players[p].piratePower # "THE_RELENTLESS"
          /\ G.players[p].notoriety = Cardinality(cellsHeld(G.board, p))
          /\ G.players[p].notoriety >= 1

(* ------------------------- properties of the sail action --------------- *)
\* The first round of the scene on the board with its islands: the human
\* player hands single-ship sails to the ActionExecutor.
VoyageCells ==
    {createHexCoord(0, 0), createHexCoord(0, 1), createHexCoord(0, 2),
     createHexCoord(-1, 0), createHexCoord(1, 1)}

SailShip(rounds) ==
    /\ SceneLive(rounds)
    /\ ctx.phase = "PLAY"
    /\ ~G.players[ctx.currentPlayer].isAI
    /\ includes(G.players[ctx.currentPlayer].placedCaptains, "SAIL")
    /\ \E ship \in {"SLOOP", "GALLEON"}, from \in VoyageCells, to \in VoyageCells :
          LET action == createSingleShipMove(ctx.currentPlayer, ship, from, to, 0)
              r == sailActionExecute(G, action)
              s1 == [Scene EXCEPT !.G = r.G]
              s2 == IF r.success THEN removeCaptainFromAction(s1, "SAIL") ELSE s1
          IN  /\ G' = s2.G
              /\ ctx' = s2.ctx
              /\ last' = [move |-> "sailAction", player |-> ctx.currentPlayer,
                          invalid |-> ~r.success, data |-> action.moves]

NextVoyage ==
    \/ OnCaptainPlaced(MaxRounds, {"SAIL"})
    \/ OnEndTurn(MaxRounds)
    \/ OnNextPhase(MaxRounds)
    \/ HandleAITurn(MaxRounds, {"SAIL"})
    \/ TimerFires(MaxRounds)
    \/ SailShip(MaxRounds)

SpecVoyage == InitRaids /\ [][NextVoyage]_vars

movesOut(moves, c, t) ==
    Cardinality({i \in DOMAIN moves : moves[i].from = c /\ moves[i].ship = t})

movesIn(moves, c, t) ==
    Cardinality({i \in DOMAIN moves : moves[i].to = c /\ moves[i].ship = t})

\* C36: a sail that succeeds leaves every cell with one ship of the player
\* fewer for each listed move out of it and one more for each listed move
\* into it, whether the move is of one hop or of two
C36_ShipsRelocated ==
    [][(last'.move = "sailAction" /\ ~last'.invalid) =>
          \A c \in BoardCells : \A t \in ShipType :
              shipsOfType(G'.board, c, t, last'.player)
                 = shipsOfType(G.board, c, t, last'.player)
                      - movesOut(last'.data, c, t) + movesIn(last'.data, c, t)]_vars

(* ------------------------- properties of the random draws -------------- *)
\* The chart move takes nothing from the random source the framework
\* injects: the order of a reshuffled pile comes from Math.random, so for one
\* state and one request the outcomes are those of chartPiles, whatever the
\* injected source.
\* C37: a chart move made in the same state with the same arguments has one
\* outcome, a draw that reshuffles the discard pile included
C37_Reproducible ==
    InPhase("play") =>
        \A chartData \in DeckCharts :
            \A pile \in chartPiles(G, chartData) :
                \A other \in chartPiles(G, chartData) :
                    chart(G, ctx, chartData, pile) = chart(G, ctx, chartData, other)

(* ------------------------- properties of the end of Play --------------- *)
\* a captain on Sink of a player whose power cannot sink
deadCaptain(g, p) ==
    /\ ~canUseSink(g.players[p].piratePower)
    /\ includes(g.players[p].placedCaptains, "SINK")

\* such a captain is there after every step of the Play phase, whatever sink
\* the player asks for, and the Play phase goes on
DeadCaptainStays ==
    /\ [](InPhase("play") =>
            \A req \in RaidSinks :
                deadCaptain(G, ctx.currentPlayer) => sink(G, ctx, req).invalid)
    /\ [][\A p \in Players :
            (InPhase("play") /\ deadCaptain(G, p)) =>
                (ctx'.phase = "play" /\ deadCaptain(G', p))]_vars

\* C38: in the Play phase no player holds a captain that no accepted move can
\* take back, so that the moves can bring every player to zero placed captains
C38_PlayCanEnd ==
    InPhase("play") => \A p \in Players : ~deadCaptain(G, p)

(* ------------------------- properties of the sink's presence rule ------ *)
\* C39: a sink is accepted only if the acting player has a ship in the
\* target cell on the board as it is once the sloop named in the request has
\* been relocated
C39_PresenceAfterMove ==
    InPhase("play") =>
        \A req \in RaidSinks :
            LET pid == ctx.currentPlayer
            IN  ~sink(G, ctx, req).invalid =>
                    getPlayerShips(boardAtSink(G, pid, req), req.hex, pid) > 0


(* ------------------------- properties of the chart cards --------------- *)
DeckChartIds == TreasureMapIds \cup SmugglerRouteIds

\* the number of places a chart is in: the draw pile, the discard pile and
\* the hands of the players
chartPlaces(g, id) ==
    countOf(g.chartDeck.drawPile, id) + countOf(g.chartDeck.discardPile, id)
    + Cardinality({pi \in Players \X (1 .. Len(g.chartDeck.drawPile) + Len(g.chartDeck.discardPile) + Cardinality(DeckChartIds)) :
                      /\ pi[2] \in DOMAIN g.players[pi[1]].charts
                      /\ g.players[pi[1]].charts[pi[2]] = id})

\* C40: every Treasure Map and Smuggler Route chart is in exactly one place,
\* the draw pile, the discard pile or the hand of one player: no step of the
\* game takes a chart that is in exactly one place out of it without putting
\* it in another, and none puts it in a second place
C40_ChartsConserved ==
    [][\A id \in DeckChartIds :
          chartPlaces(G, id) = 1 => chartPlaces(G', id) = 1]_vars

====
